---------------------------- MODULE Spec2Model ----------------------------
(***************************************************************************)
(* A model of the clar2wasm code generator (clar2wasm/src/wasm_generator.rs)*)
(* and of the code it emits:                                               *)
(*   - the MemoryCodec: write_to_memory / read_from_memory and the literal *)
(*     pushes, executed on an operand stack and a byte memory (SpecCodec); *)
(*   - the LiteralPool and generate() (Spec);                              *)
(*   - the execution of the emitted functions: prelude, call-stack locals, *)
(*     host calls, calls of user-defined functions and postlude (SpecRun); *)
(*   - the traversal of a typed contract by the generator's handlers        *)
(*     (SpecTraverse) and the default walk of ASTVisitor (SpecVisitor);     *)
(*   - the emitted instructions run, one at a time, on an operand stack,   *)
(*     locals, a byte memory and the host interface (SpecExec);            *)
(*   - the consensus serialization of values (SpecSerialize).              *)
(***************************************************************************)
EXTENDS Integers, Sequences, FiniteSets, TLC

VARIABLES
    \* ---- MemoryCodec harness (SpecCodec) ----
    cty,        \* Clarity type of the value being staged
    cval,       \* the source value: 16 little-endian bytes of an i128, or <<>>
    cpushed,    \* operand-stack representation that was pushed for the value
    cstack,     \* operand stack of the emitted code
    cmem,       \* linear memory, byte addressed
    cbase,      \* value of the offset local handed to write/read
    csize,      \* size returned by create_call_stack_local for the reservation
    cwritten,   \* bytes returned by write_to_memory
    cread,      \* bytes returned by read_from_memory
    cpc,        \* position of the harness
    \* ---- generator state (WasmGenerator) ----
    literal_memory_end,     \* offset of the end of the literal memory
    literal_memory_offet,   \* map from string key to offset (name as in the source)
    data,                   \* module.data: active data segments, in insertion order
    log,                    \* record of every literal insertion and what it returned
    phase,                  \* "gen" while generating, "run" once generate() returned
    \* ---- execution of the emitted module ----
    sp,         \* the $stack-pointer global
    frames,     \* activations of emitted functions, innermost last
    store,      \* the host's persisted value of the data variable
    last,       \* the call that has just returned, if the last step was a return
    local,      \* the call-stack local the last step created, if it created one
    \* ---- traversal of a contract (SpecTraverse, SpecVisitor) ----
    program,    \* the contract: its top-level expressions, typed
    gen,        \* the WasmGenerator (or the visitor) driven through the contract
    result,     \* what generate() returned, once it has
    first,      \* what an earlier compilation of the same contract returned
    machine,    \* the engine running the emitted module (SpecExec)
    \* ---- consensus serialization (SpecSerialize) ----
    svalue,     \* the value handed to serialize
    sbytes,     \* the bytes it produced
    spc         \* "value" while the value is built, then "serialized"

cvars == <<cty, cval, cpushed, cstack, cmem, cbase, csize, cwritten, cread, cpc>>
gvars == <<literal_memory_end, literal_memory_offet, data, log, phase>>
rvars == <<sp, frames, store, last, local>>
tvars == <<program, gen, result, first, machine>>
svars == <<svalue, sbytes, spc>>
vars == <<cvars, gvars, rvars, tvars, svars>>

-----------------------------------------------------------------------------
(* Bounds of the model *)

\* size of the byte memory of the codec harness is CodecBaseMax + 40
CodecBaseMax == 8

-----------------------------------------------------------------------------
(* Slots and bytes *)

Byte == 0..255

I32(n) == [t |-> "i32", v |-> n]
I64(bytes) == [t |-> "i64", v |-> bytes]

\* An i128 is kept as its 16 little-endian bytes; i & 0xFFFFFFFFFFFFFFFF is
\* bytes 1..8 and i >> 64 is bytes 9..16.
LowHalf(i) == SubSeq(i, 1, 8)
HighHalf(i) == SubSeq(i, 9, 16)

Zeros(n) == [k \in 1..n |-> 0]

\* the 128-bit values the harness draws from
Int128Values ==
    { Zeros(16),
      <<1>> \o Zeros(15),                                   \* 1
      [k \in 1..16 |-> 255],                                \* -1
      Zeros(8) \o <<1>> \o Zeros(7),                        \* 2^64
      <<86, 4>> \o Zeros(6) \o <<35, 1>> \o Zeros(6) }      \* 0x123_0000_0000_0000_0456

\* Clarity types
IntType == [k |-> "int"]
UIntType == [k |-> "uint"]
BoolType == [k |-> "bool"]
PrincipalType == [k |-> "principal"]
SequenceType == [k |-> "sequence"]
\* SequenceType(ListType): a list of at most max_len items of one type
ListType(max_len, item) == [k |-> "sequence", max_len |-> max_len, item |-> item]
NoType == [k |-> "notype"]
OptionalType(inner) == [k |-> "optional", a |-> inner]
ResponseType(ok, err) == [k |-> "response", a |-> ok, b |-> err]

\* A tuple type holds its fields in a BTreeMap from key to type, so they are
\* met in the order of the keys whatever order they were written in.  Keys
\* are byte strings; fields is the sequence of [key, ty] in key order.
RECURSIVE KeyLess(_, _)
KeyLess(k1, k2) ==
    IF k1 = <<>> THEN k2 # <<>>
    ELSE IF k2 = <<>> THEN FALSE
    ELSE IF Head(k1) # Head(k2) THEN Head(k1) < Head(k2)
    ELSE KeyLess(Tail(k1), Tail(k2))

RECURSIVE InKeyOrder(_)
InKeyOrder(fs) ==
    IF fs = {} THEN <<>>
    ELSE LET f == CHOOSE x \in fs : \A y \in fs \ {x} : KeyLess(x.key, y.key)
         IN <<f>> \o InKeyOrder(fs \ {f})

TupleType(fs) == [k |-> "tuple", fields |-> InKeyOrder(fs)]

\* the tuple type { a: int, b: bool }
TupleIntBool ==
    TupleType({ [key |-> <<98>>, ty |-> BoolType], [key |-> <<97>>, ty |-> IntType] })


\* the types the harness stages
CodecTypes ==
    { IntType, UIntType, PrincipalType, SequenceType, BoolType, NoType,
      OptionalType(IntType), ResponseType(IntType, UIntType), TupleIntBool }

-----------------------------------------------------------------------------
(* TypeLayout *)

\* Convert a Clarity type signature to a wasm type signature.
RECURSIVE ConcatAll(_)
ConcatAll(ss) == IF ss = <<>> THEN <<>> ELSE Head(ss) \o ConcatAll(Tail(ss))

RECURSIVE SumAll(_)
SumAll(ns) == IF ns = <<>> THEN 0 ELSE Head(ns) + SumAll(Tail(ns))

RECURSIVE clar2wasm_ty(_)
clar2wasm_ty(ty) ==
    CASE ty.k = "notype" -> <<"i32">>
      [] ty.k = "int" -> <<"i64", "i64">>
      [] ty.k = "uint" -> <<"i64", "i64">>
      [] ty.k = "response" ->
            <<"i32">> \o clar2wasm_ty(ty.a) \o clar2wasm_ty(ty.b)
      [] ty.k = "sequence" -> <<"i32", "i32">>
      [] ty.k = "bool" -> <<"i32">>
      [] ty.k = "principal" -> <<"i32", "i32">>
      [] ty.k = "optional" -> <<"i32">> \o clar2wasm_ty(ty.a)
      [] ty.k = "tuple" ->
            ConcatAll([i \in 1..Len(ty.fields) |-> clar2wasm_ty(ty.fields[i].ty)])

\* Bytes needed for the representation of a value of type ty (for an
\* in-memory type, its offset and length).
RECURSIVE get_type_size(_)
get_type_size(ty) ==
    CASE ty.k \in {"int", "uint"} -> 16
      [] ty.k \in {"bool", "notype"} -> 4
      [] ty.k \in {"principal", "sequence"} -> 8
      [] ty.k = "optional" -> 4 + get_type_size(ty.a)
      [] ty.k = "response" -> 4 + get_type_size(ty.a) + get_type_size(ty.b)
      [] ty.k = "tuple" ->
            SumAll([i \in 1..Len(ty.fields) |-> get_type_size(ty.fields[i].ty)])

\* Bytes needed for a value of type ty in memory: for a list, its items one
\* after the other (and its offset and length if include_repr).
RECURSIVE get_type_in_memory_size(_, _)
get_type_in_memory_size(ty, include_repr) ==
    CASE ty.k \in {"int", "uint"} -> 16
      [] ty.k \in {"bool", "notype"} -> 4
      [] ty.k = "optional" -> 4 + get_type_in_memory_size(ty.a, include_repr)
      [] ty.k = "response" ->
            4 + get_type_in_memory_size(ty.a, include_repr)
              + get_type_in_memory_size(ty.b, include_repr)
      [] ty.k = "sequence" ->
            ty.max_len * get_type_in_memory_size(ty.item, TRUE)
              + (IF include_repr THEN 8 ELSE 0)

-----------------------------------------------------------------------------
(* Linear memory: loads and stores are little-endian *)

StoreI64(mem, addr, bytes) ==
    [a \in DOMAIN mem |->
        IF a \in addr..(addr + 7) THEN bytes[a - addr + 1] ELSE mem[a]]

LoadI64(mem, addr) == [i \in 1..8 |-> mem[addr + i - 1]]

StoreI32(mem, addr, n) ==
    [a \in DOMAIN mem |->
        IF a \in addr..(addr + 3)
        THEN (n \div (256 ^ (a - addr))) % 256
        ELSE mem[a]]

LoadI32(mem, addr) ==
    mem[addr] + 256 * mem[addr + 1] + 65536 * mem[addr + 2]
        + 16777216 * mem[addr + 3]

Pop(st, n) == SubSeq(st, 1, Len(st) - n)
Top(st, n) == st[Len(st) - n]     \* n = 0 is the top of the stack

-----------------------------------------------------------------------------
(* MemoryCodec *)

\* A 128-bit literal: two i64.const, in this order.
visit_literal_value(i) == << I64(LowHalf(i)), I64(HighHalf(i)) >>

\* The data add_literal places in the literal memory for an Int or UInt.
add_literal_int_data(i) == LowHalf(i) \o HighHalf(i)

\* write_to_memory as its comments read: the half popped first (named low)
\* stored at the lower address
write_to_memory_low_first(st, mem, offset_local, offset, ty) ==
    CASE ty.k \in {"int", "uint"} ->
            LET low == Top(st, 0).v
                high == Top(st, 1).v
                m1 == StoreI64(mem, offset_local + offset, low)
                m2 == StoreI64(m1, offset_local + offset + 8, high)
            IN [ok |-> TRUE, stack |-> Pop(st, 2), mem |-> m2, size |-> 16]
      [] ty.k \in {"principal", "sequence"} ->
            LET seq_length == Top(st, 0).v
                seq_offset == Top(st, 1).v
                m1 == StoreI32(mem, offset_local + offset, seq_length)
                m2 == StoreI32(m1, offset_local + offset + 4, seq_offset)
            IN [ok |-> TRUE, stack |-> Pop(st, 2), mem |-> m2, size |-> 8]
      [] OTHER -> [ok |-> FALSE, stack |-> st, mem |-> mem, size |-> 0]

\* write_to_memory: the code emitted for a value of type ty on top of the
\* operand stack st, executed on memory mem; ok is FALSE where the generator
\* stops with unimplemented!().
write_to_memory(st, mem, offset_local, offset, ty) ==
    CASE ty.k \in {"int", "uint"} ->
            LET low == Top(st, 0).v          \* local_set(low)
                high == Top(st, 1).v         \* local_set(high)
                m1 == StoreI64(mem, offset_local + offset, high)
                m2 == StoreI64(m1, offset_local + offset + 8, low)
            IN [ok |-> TRUE, stack |-> Pop(st, 2), mem |-> m2, size |-> 16]
      [] ty.k \in {"principal", "sequence"} ->
            LET seq_length == Top(st, 0).v   \* local_set(seq_length)
                seq_offset == Top(st, 1).v   \* local_set(seq_offset)
                m1 == StoreI32(mem, offset_local + offset, seq_offset)
                m2 == StoreI32(m1, offset_local + offset + 4, seq_length)
            IN [ok |-> TRUE, stack |-> Pop(st, 2), mem |-> m2, size |-> 8]
      [] OTHER -> [ok |-> FALSE, stack |-> st, mem |-> mem, size |-> 0]

\* read_from_memory: the loads emitted for type ty, executed on mem, pushing
\* onto st; ok is FALSE where the generator stops with unimplemented!().
RECURSIVE read_from_memory(_, _, _, _, _)
read_from_memory(st, mem, offset, literal_offset, ty) ==
    CASE ty.k \in {"int", "uint"} ->
            [ok |-> TRUE,
             stack |-> st \o << I64(LoadI64(mem, offset + literal_offset)),
                                I64(LoadI64(mem, offset + literal_offset + 8)) >>,
             size |-> 16]
      [] ty.k = "optional" ->
            LET ind == I32(LoadI32(mem, offset + literal_offset))
                r == read_from_memory(st \o <<ind>>, mem, offset,
                                      literal_offset + 4, ty.a)
            IN [ok |-> r.ok, stack |-> r.stack, size |-> 4 + r.size]
      [] ty.k = "response" ->
            LET ind == I32(LoadI32(mem, offset + literal_offset))
                r1 == read_from_memory(st \o <<ind>>, mem, offset,
                                       literal_offset + 4, ty.a)
                r2 == read_from_memory(r1.stack, mem, offset,
                                       literal_offset + 4 + r1.size, ty.b)
            IN [ok |-> r1.ok /\ r2.ok, stack |-> r2.stack,
                size |-> 4 + r1.size + r2.size]
      [] ty.k \in {"principal", "sequence"} ->
            [ok |-> TRUE,
             stack |-> st \o << I32(LoadI32(mem, offset + literal_offset)),
                                I32(LoadI32(mem, offset + literal_offset + 4)) >>,
             size |-> 8]
      [] ty.k = "notype" ->
            [ok |-> TRUE, stack |-> st \o <<I32(0)>>, size |-> 4]
      [] OTHER -> [ok |-> FALSE, stack |-> st, size |-> 0]

\* Push a placeholder value for Clarity type ty onto the data stack.
add_placeholder_for_clarity_type(st, ty) ==
    LET w == clar2wasm_ty(ty)
    IN st \o [n \in 1..Len(w) |->
                IF w[n] = "i32" THEN I32(0) ELSE I64(Zeros(8))]

-----------------------------------------------------------------------------
(* The MemoryCodec harness: a value is pushed, space is reserved for it as  *)
(* visit_var_set does, it is written and read back; or it is placed in the *)
(* literal memory by add_literal and read through the constant lookup; or  *)
(* the host fills the reservation (get_variable) and it is read.           *)

CodecMemTop == CodecBaseMax + 39

\* (offset, length) pairs an in-memory value may be represented by
RefReprs == { << I32(o), I32(l) >> : o \in {0, 300}, l \in {0, 5, 70000} }

CodecInit ==
    /\ cty \in CodecTypes
    /\ cval \in IF cty.k \in {"int", "uint"} THEN Int128Values ELSE {<<>>}
    /\ cbase \in {0, CodecBaseMax}
    /\ cmem = [a \in 0..CodecMemTop |-> 170]
    /\ cstack = <<>>
    /\ cpushed = <<>>
    /\ csize = 0
    /\ cwritten = 0
    /\ cread = 0
    /\ cpc = "start"

\* visit_literal_value for an Int or UInt literal
VisitLiteralValue ==
    /\ cpc = "start"
    /\ cty.k \in {"int", "uint"}
    /\ cstack' = cstack \o visit_literal_value(cval)
    /\ cpushed' = cstack'
    /\ cpc' = "pushed"
    /\ UNCHANGED <<tvars, svars, cty, cval, cmem, cbase, csize, cwritten, cread, gvars, rvars>>

\* the value of any other expression: its slots are on the stack
PushValue ==
    /\ cpc = "start"
    /\ cty.k \notin {"int", "uint"}
    /\ \E r \in (IF cty.k \in {"principal", "sequence"}
                 THEN RefReprs
                 ELSE {add_placeholder_for_clarity_type(<<>>, cty)}) :
          cstack' = cstack \o r
    /\ cpushed' = cstack'
    /\ cpc' = "pushed"
    /\ UNCHANGED <<tvars, svars, cty, cval, cmem, cbase, csize, cwritten, cread, gvars, rvars>>

\* create_call_stack_local(ty, include_repr = true, include_value = false)
CodecReserve ==
    /\ cpc = "pushed"
    /\ csize' = get_type_size(cty)
    /\ cpc' = "reserved"
    /\ UNCHANGED <<tvars, svars, cty, cval, cpushed, cstack, cmem, cbase, cwritten, cread, gvars, rvars>>

\* write_to_memory(builder, offset, 0, ty)
CodecWrite ==
    /\ cpc = "reserved"
    /\ LET w == write_to_memory(cstack, cmem, cbase, 0, cty)
       IN /\ cstack' = w.stack
          /\ cmem' = w.mem
          /\ cwritten' = w.size
          /\ cpc' = IF w.ok THEN "written" ELSE "panic_write"
    /\ UNCHANGED <<tvars, svars, cty, cval, cpushed, cbase, csize, cread, gvars, rvars>>

\* read_from_memory(builder, offset, 0, ty)
CodecRead ==
    /\ cpc \in {"written", "constant", "filled"}
    /\ LET r == read_from_memory(cstack, cmem, cbase, 0, cty)
       IN /\ cstack' = r.stack
          /\ cread' = r.size
          /\ cpc' = IF ~r.ok THEN "panic_read"
                    ELSE CASE cpc = "written" -> "roundtrip"
                           [] cpc = "constant" -> "constread"
                           [] cpc = "filled" -> "hostread"
    /\ UNCHANGED <<tvars, svars, cty, cval, cpushed, cmem, cbase, csize, cwritten, gvars, rvars>>

\* traverse_define_constant with a literal Int/UInt: add_literal places the
\* data in the literal memory (an active data segment at cbase)
CodecAddLiteral ==
    /\ cpc = "start"
    /\ cty.k \in {"int", "uint"}
    /\ LET d == add_literal_int_data(cval)
       IN cmem' = [a \in DOMAIN cmem |->
                     IF a \in cbase..(cbase + Len(d) - 1)
                     THEN d[a - cbase + 1] ELSE cmem[a]]
    /\ cpc' = "constant"
    /\ UNCHANGED <<tvars, svars, cty, cval, cpushed, cstack, cbase, csize, cwritten, cread, gvars, rvars>>

\* visit_var_get: space is reserved and the host fills it (get_variable)
CodecHostFill ==
    /\ cpc = "start"
    /\ csize' = get_type_size(cty)
    /\ cmem' = [a \in DOMAIN cmem |->
                  IF a \in cbase..(cbase + get_type_size(cty) - 1)
                  THEN (a - cbase) + 1 ELSE cmem[a]]
    /\ cpc' = "filled"
    /\ UNCHANGED <<tvars, svars, cty, cval, cpushed, cstack, cbase, cwritten, cread, gvars, rvars>>

CodecNext ==
    \/ VisitLiteralValue
    \/ PushValue
    \/ CodecReserve
    \/ CodecWrite
    \/ CodecRead
    \/ CodecAddLiteral
    \/ CodecHostFill

-----------------------------------------------------------------------------
(* LiteralPool: the generator's literal memory.  A pool g is the record of *)
(* the generator fields literal_memory_end, literal_memory_offet and the   *)
(* module's data segments; every operation returns the new pool with the  *)
(* (offset, len) pair the source function returns, and the number of bytes *)
(* of data it added.                                                       *)

\* characters are their byte values: 34 is the double quote, 92 the
\* backslash, 117 the letter u, 123 and 125 the braces
\* std::ascii::escape_default for the bytes the model uses
escape_default(c) ==
    IF c \in {34, 92} THEN <<92, c>> ELSE <<c>>

HexDigit(n) == IF n < 10 THEN 48 + n ELSE 87 + n
to_hex(b) == << HexDigit(b \div 16), HexDigit(b % 16) >>

RECURSIVE Flatten(_)
Flatten(ss) == IF ss = <<>> THEN <<>> ELSE Head(ss) \o Flatten(Tail(ss))

\* CharType::to_string(): the key add_string_literal uses.  An ASCII string
\* is displayed quoted and escaped; a UTF8 string as u"..." with every
\* multi-byte character as \u{hex}.
to_string(s) ==
    IF s.enc = "ascii"
    THEN <<34>> \o Flatten([i \in 1..Len(s.chars) |-> escape_default(s.chars[i])])
                  \o <<34>>
    ELSE <<117, 34>>
            \o Flatten([i \in 1..Len(s.chars) |->
                 IF Len(s.chars[i]) > 1
                 THEN <<92, 117, 123>>
                        \o Flatten([j \in 1..Len(s.chars[i]) |-> to_hex(s.chars[i][j])])
                        \o <<125>>
                 ELSE escape_default(s.chars[i][1])])
            \o <<34>>

ASCII(chars) == [enc |-> "ascii", chars |-> chars]
UTF8(chars) == [enc |-> "utf8", chars |-> chars]

NewPool == [literal_memory_end |-> 0, literal_memory_offet |-> <<>>, data |-> <<>>]

\* module.data.add(Active at Absolute(offset), bytes); literal_memory_end += len
AppendData(g, bytes) ==
    [g EXCEPT !.data = Append(@, [offset |-> g.literal_memory_end, bytes |-> bytes]),
              !.literal_memory_end = @ + Len(bytes)]

\* the lookup that never finds an entry
LookupNever(g, key) == FALSE

\* literal_memory_offet.get(key) is Some
LookupHit(g, key) == key \in DOMAIN g.literal_memory_offet

add_string_literal(g, s) ==
    IF LookupHit(g, to_string(s))
    THEN [g |-> g, offset |-> g.literal_memory_offet[to_string(s)],
          len |-> Len(to_string(s)), added |-> 0]
    ELSE LET bytes == IF s.enc = "ascii" THEN s.chars ELSE Flatten(s.chars)
             g1 == AppendData(g, bytes)
         IN [g |-> [g1 EXCEPT !.literal_memory_offet =
                        (to_string(s) :> g.literal_memory_end) @@ @],
             offset |-> g.literal_memory_end, len |-> Len(bytes),
             added |-> Len(bytes)]

add_identifier_string_literal(g, name) ==
    IF LookupHit(g, name)
    THEN [g |-> g, offset |-> g.literal_memory_offet[name],
          len |-> Len(name), added |-> 0]
    ELSE LET g1 == AppendData(g, name)
         IN [g |-> [g1 EXCEPT !.literal_memory_offet =
                        (name :> g.literal_memory_end) @@ @],
             offset |-> g.literal_memory_end, len |-> Len(name),
             added |-> Len(name)]

\* the literal values add_literal accepts
IntValue(i) == [k |-> "int", i |-> i]
UIntValue(i) == [k |-> "uint", i |-> i]
BufferValue(bytes) == [k |-> "buffer", bytes |-> bytes]
StandardPrincipal(version, hash) == [k |-> "principal", version |-> version, hash |-> hash]
StringValue(s) == [k |-> "string", s |-> s]

add_literal_data(value) ==
    CASE value.k \in {"int", "uint"} -> add_literal_int_data(value.i)
      [] value.k = "principal" ->
            <<value.version>> \o value.hash \o Zeros(4) \o Zeros(4)
      [] value.k = "contract" ->
            <<value.version>> \o value.hash
                \o <<Len(value.name)>> \o Zeros(3) \o value.name
      [] value.k = "buffer" -> value.bytes

add_literal(g, value) ==
    IF value.k = "string"
    THEN add_string_literal(g, value.s)
    ELSE LET bytes == add_literal_data(value)
         IN [g |-> AppendData(g, bytes), offset |-> g.literal_memory_end,
             len |-> Len(bytes), added |-> Len(bytes)]

\* traverse_define_data_var: the identifier is interned, then the initial
\* value (an Int here) is written at literal_memory_end, which is advanced
\* by the size write_to_memory returned.
define_data_var(g, name) ==
    LET r == add_identifier_string_literal(g, name)
        size == write_to_memory(visit_literal_value(Zeros(16)),
                                [a \in 0..15 |-> 0], 0, 0, IntType).size
    IN [r EXCEPT !.g.literal_memory_end = @ + size]

\* the stack-pointer global left at the start of the memory
StackPointerInitZero(g) == 0

\* generate(): the initial value given to the stack-pointer global
StackPointerInit(g) == g.literal_memory_end

-----------------------------------------------------------------------------
(* The generator as a state machine (Spec): literals are inserted in any   *)
(* order, then generate() finishes the module.                             *)

MaxInserts == 3

PoolStrings == { ASCII(<<97>>), ASCII(<<34>>), UTF8(<< <<195, 169>> >>) }
PoolNames == { <<97>>, <<120>> }
PoolLiterals ==
    { IntValue(<<1>> \o Zeros(15)), BufferValue(<<97>>),
      StandardPrincipal(26, Zeros(20)), StringValue(ASCII(<<97>>)) }

CurPool ==
    [literal_memory_end |-> literal_memory_end,
     literal_memory_offet |-> literal_memory_offet,
     data |-> data]

\* the generator's fields after an operation that returned r, and the log
\* of what was asked and returned
Returned(fn, arg, r) ==
    /\ literal_memory_end' = r.g.literal_memory_end
    /\ literal_memory_offet' = r.g.literal_memory_offet
    /\ data' = r.g.data
    /\ log' = Append(log, [fn |-> fn, arg |-> arg, offset |-> r.offset,
                           len |-> r.len, added |-> r.added])

\* WasmGenerator::new
GenInit ==
    /\ literal_memory_end = NewPool.literal_memory_end
    /\ literal_memory_offet = NewPool.literal_memory_offet
    /\ data = NewPool.data
    /\ log = <<>>
    /\ phase = "gen"

CodecIdle ==
    /\ cty = NoType
    /\ cval = <<>>
    /\ cpushed = <<>>
    /\ cstack = <<>>
    /\ cmem = <<>>
    /\ cbase = 0
    /\ csize = 0
    /\ cwritten = 0
    /\ cread = 0
    /\ cpc = "idle"

RunIdle ==
    /\ sp = 0
    /\ frames = <<>>
    /\ store = 0
    /\ last = [kind |-> "none"]
    /\ local = [offset |-> -1, size |-> 0]

\* no contract is being traversed and nothing is being serialized
TraverseIdle ==
    /\ program = <<>>
    /\ gen = [status |-> "idle"]
    /\ result = [kind |-> "none"]
    /\ first = [kind |-> "none"]
    /\ machine = [status |-> "idle"]

SerializeIdle ==
    /\ svalue = [k |-> "none"]
    /\ sbytes = <<>>
    /\ spc = "idle"

AddStringLiteral ==
    /\ phase = "gen"
    /\ Len(log) < MaxInserts
    /\ \E s \in PoolStrings :
          Returned("add_string_literal", s, add_string_literal(CurPool, s))
    /\ UNCHANGED <<tvars, svars, phase, cvars, rvars>>

AddIdentifierStringLiteral ==
    /\ phase = "gen"
    /\ Len(log) < MaxInserts
    /\ \E name \in PoolNames :
          Returned("add_identifier_string_literal", name,
                   add_identifier_string_literal(CurPool, name))
    /\ UNCHANGED <<tvars, svars, phase, cvars, rvars>>

AddLiteral ==
    /\ phase = "gen"
    /\ Len(log) < MaxInserts
    /\ \E value \in PoolLiterals :
          Returned(IF value.k = "string" THEN "add_string_literal"
                                           ELSE "add_literal",
                   IF value.k = "string" THEN value.s ELSE value,
                   add_literal(CurPool, value))
    /\ UNCHANGED <<tvars, svars, phase, cvars, rvars>>

DefineDataVar ==
    /\ phase = "gen"
    /\ Len(log) < MaxInserts
    /\ \E name \in PoolNames :
          Returned("add_identifier_string_literal", name,
                   define_data_var(CurPool, name))
    /\ UNCHANGED <<tvars, svars, phase, cvars, rvars>>

\* generate(): the stack pointer's initial value is set and the module returned
Generate ==
    /\ phase = "gen"
    /\ phase' = "run"
    /\ sp' = StackPointerInit(CurPool)
    /\ UNCHANGED <<tvars, svars, literal_memory_end, literal_memory_offet, data, log,
                   frames, store, last, local, cvars>>

Init == CodecIdle /\ GenInit /\ RunIdle /\ TraverseIdle /\ SerializeIdle

Next ==
    \/ AddStringLiteral
    \/ AddIdentifierStringLiteral
    \/ AddLiteral
    \/ DefineDataVar
    \/ Generate

Spec == Init /\ [][Next]_vars

InitCodec == CodecInit /\ GenInit /\ RunIdle /\ TraverseIdle /\ SerializeIdle

SpecCodec == InitCodec /\ [][CodecNext]_vars

-----------------------------------------------------------------------------
(* Execution of the emitted module (SpecRun).  The module is one that      *)
(* generate() returned for a contract with a data variable x and a         *)
(* function a, with or without a string literal; the host calls an exported*)
(* function, whose body runs the code of the handlers below and may call   *)
(* other functions of the contract.                                        *)

MaxDepth == 2
MaxLocals == 2

\* lengths of the lists built and values stored by the bodies
ListLens == {2}
StoreValues == {1}

\* the absence of an in-memory value, of a call-stack local, of a call
NoRef == [offset |-> -1, len |-> 0]
NoLocal == [offset |-> -1, size |-> 0]
NoCall == [kind |-> "none"]

PoolX == define_data_var(NewPool, <<120>>).g
PoolXA == add_identifier_string_literal(PoolX, <<97>>).g
PoolXAS == add_string_literal(PoolXA, ASCII(<<97, 97>>)).g
GeneratedPools == { PoolXA, PoolXAS }

InitRun ==
    /\ CodecIdle
    /\ TraverseIdle
    /\ SerializeIdle
    /\ \E g \in GeneratedPools :
          /\ literal_memory_end = g.literal_memory_end
          /\ literal_memory_offet = g.literal_memory_offet
          /\ data = g.data
          /\ sp = StackPointerInit(g)
    /\ log = <<>>
    /\ phase = "run"
    /\ frames = <<>>
    /\ store = 0
    /\ last = NoCall
    /\ local = NoLocal

Cur == frames[Len(frames)]

RECURSIVE LiveLocals(_)
LiveLocals(fs) == IF fs = <<>> THEN 0 ELSE Head(fs).nlocals + LiveLocals(Tail(fs))

\* get_type_in_memory_size(list of n Int, include_repr = false), which
\* traverse_list_cons asserts to be the total its n writes return
ListSize(n) == n * write_to_memory(visit_literal_value(Zeros(16)),
                                  [a \in 0..15 |-> 0], 0, 0, IntType).size

\* create_call_stack_local as executed: the local holds the stack pointer
\* and the stack pointer is advanced by size
create_call_stack_local(cur_sp, size) ==
    [offset |-> cur_sp, size |-> size, sp |-> cur_sp + size]

\* Function prelude: the frame pointer local, given the stack pointer
Prelude(cur_sp) == cur_sp

\* a postlude that leaves the stack pointer where the body left it
PostludeSkipped(frame_pointer, cur_sp) == cur_sp

\* Function postlude: the value the stack pointer is set to, given the
\* frame pointer saved by the prelude and the current stack pointer
Postlude(frame_pointer, cur_sp) == frame_pointer

\* The offset of the value a user-defined function call leaves with the
\* caller, given the offset the callee's body left: the call is a plain
\* call instruction and the slots are passed through
ReturnedOffset(callee_offset, caller_sp) == callee_offset

\* The host calls an exported function, or the running body calls a
\* function of the contract (traverse_call_user_defined); the prelude
\* saves the stack pointer in the frame pointer.
CallFunction ==
    /\ phase = "run"
    /\ Len(frames) < MaxDepth
    /\ \E kind \in (IF frames = <<>> THEN {"public", "read_only"}
                    ELSE {"public", "read_only", "private"}) :
          frames' = Append(frames,
                       [kind |-> kind, frame_pointer |-> Prelude(sp),
                        entry_sp |-> sp, pre_store |-> store,
                        nlocals |-> 0, result |-> NoRef])
    /\ last' = NoCall
    /\ local' = NoLocal
    /\ UNCHANGED <<tvars, svars, sp, store, gvars, cvars>>

\* traverse_list_cons for a list of n Int: space for the whole list is
\* reserved on the call stack, the elements are written to it, and the
\* list's (offset, size) is left on the data stack
ListCons ==
    /\ phase = "run"
    /\ frames # <<>>
    /\ LiveLocals(frames) < MaxLocals
    /\ \E n \in ListLens :
         LET l == create_call_stack_local(sp, ListSize(n))
         IN /\ sp' = l.sp
            /\ local' = [offset |-> l.offset, size |-> l.size]
            /\ frames' = [frames EXCEPT ![Len(frames)] =
                            [@ EXCEPT !.nlocals = @ + 1,
                                      !.result = [offset |-> l.offset,
                                                  len |-> l.size]]]
    /\ last' = NoCall
    /\ UNCHANGED <<tvars, svars, store, gvars, cvars>>

\* visit_literal_value for a string that is in the literal memory: its
\* (offset, len) is left on the data stack
StringLiteral ==
    /\ phase = "run"
    /\ frames # <<>>
    /\ Cur.result = NoRef
    /\ \E s \in { ASCII(<<97, 97>>) } :
          /\ LookupHit(CurPool, to_string(s))
          /\ frames' = [frames EXCEPT ![Len(frames)].result =
                          [offset |-> literal_memory_offet[to_string(s)],
                           len |-> Len(s.chars)]]
    /\ last' = NoCall
    /\ local' = NoLocal
    /\ UNCHANGED <<tvars, svars, sp, store, gvars, cvars>>

\* visit_var_set: space for the value is reserved on the call stack, the
\* value is written there and the host's set_variable stores it
VarSet ==
    /\ phase = "run"
    /\ frames # <<>>
    /\ LiveLocals(frames) < MaxLocals
    /\ \E v \in StoreValues :
         LET l == create_call_stack_local(sp, get_type_size(IntType))
         IN /\ sp' = l.sp
            /\ local' = [offset |-> l.offset, size |-> l.size]
            /\ frames' = [frames EXCEPT ![Len(frames)].nlocals = @ + 1]
            /\ store' = v
    /\ last' = NoCall
    /\ UNCHANGED <<tvars, svars, gvars, cvars>>

\* The body ends and the postlude runs; the function returns to its caller
\* (or to the host) with an ok or err response.  A frame's result is the
\* in-memory value (a list or a string) its code has left on the data
\* stack, if any; the callee's becomes the caller's.
ReturnFunction ==
    /\ phase = "run"
    /\ frames # <<>>
    /\ \E ok \in BOOLEAN :
         LET f == Cur
             rest == SubSeq(frames, 1, Len(frames) - 1)
             new_sp == Postlude(f.frame_pointer, sp)
             ret == IF f.result = NoRef THEN NoRef
                    ELSE [f.result EXCEPT !.offset = ReturnedOffset(@, new_sp)]
         IN /\ sp' = new_sp
            /\ frames' = IF rest = <<>> THEN rest
                         ELSE [rest EXCEPT ![Len(rest)].result = ret]
            /\ last' = [kind |-> f.kind, ok |-> ok,
                        entry_sp |-> f.entry_sp, exit_sp |-> new_sp,
                        pre_store |-> f.pre_store, post_store |-> store,
                        nlocals |-> f.nlocals, nested |-> rest # <<>>,
                        ret |-> ret]
    /\ local' = NoLocal
    /\ UNCHANGED <<tvars, svars, store, gvars, cvars>>

\* visit_unwrap_panic on none or err: runtime-error is called and the
\* execution traps; no function returns and nothing more is executed
RuntimeError ==
    /\ phase = "run"
    /\ frames # <<>>
    /\ phase' = "trapped"
    /\ last' = NoCall
    /\ local' = NoLocal
    /\ UNCHANGED <<tvars, svars, sp, frames, store, literal_memory_end,
                   literal_memory_offet, data, log, cvars>>

NextRun ==
    \/ CallFunction
    \/ ListCons
    \/ StringLiteral
    \/ VarSet
    \/ ReturnFunction
    \/ RuntimeError

SpecRun == InitRun /\ [][NextRun]_vars

-----------------------------------------------------------------------------
(* The traversal of a contract (SpecTraverse): generate() walks the        *)
(* top-level expressions of a type-checked contract, each expression is    *)
(* dispatched by traverse_expr / traverse_list to its handler, and the     *)
(* handlers emit instructions into the current builder.                    *)

\* get_expr_type(expr) is None: the type map has no entry for the expression
Untyped == [k |-> "untyped"]

\* SymbolicExpression: a literal value, an atom, or a list headed by a
\* function name.  ty is the entry of the type map for the expression.
Lit(value, ty) == [e |-> "literal", value |-> value, ty |-> ty]
Atom(name, ty) == [e |-> "atom", name |-> name, ty |-> ty]
List(f, args, ty) == [e |-> "list", f |-> f, args |-> args, ty |-> ty]

\* (name (p1 t1) ...): the signature of a function definition.  fixed and
\* returns are what contract_analysis holds for the function; known is
\* whether contract_analysis has the function at all.
Signature(name, params, returns, known) ==
    [e |-> "signature", name |-> name, params |-> params,
     returns |-> returns, known |-> known, ty |-> Untyped]

\* ((n1 v1) ...): the binding list of a let
Bindings(pairs) == [e |-> "bindings", pairs |-> pairs, ty |-> Untyped]

\* get_expr_type
get_expr_type(expr) == expr.ty

\* the bytes of the names the contracts use
NameBytes ==
    [n \in {"f", "g", "x", "y", "k", "m", "a", "if"} |->
        CASE n = "a" -> <<97>> [] n = "if" -> <<105, 102>> [] n = "f" -> <<102>> [] n = "g" -> <<103>> [] n = "x" -> <<120>>
          [] n = "y" -> <<121>> [] n = "k" -> <<107>> [] n = "m" -> <<109>>]

\* NativeVariables::lookup_by_name_at_version is Some
NativeVariableNames == {"true", "false", "none", "chain-id"}

\* the native and define functions traverse_list knows by name
DefineFunctionNames ==
    {"define-constant", "define-private", "define-read-only", "define-public",
     "define-map", "define-trait"}
NativeFunctionNames ==
    {"ok", "err", "some", "as-contract", "begin", "and", "or", "if",
     "unwrap!", "unwrap-panic", "unwrap-err!", "unwrap-err-panic", "fold",
     "list", "map-get?", "map-insert", "contract-call?"}

\* ---- instructions ----
I32Const(v) == [op |-> "i32.const", v |-> v]
I64Const(v) == [op |-> "i64.const", bytes |-> v]
LocalGet(id) == [op |-> "local.get", id |-> id]
LocalSet(id) == [op |-> "local.set", id |-> id]
GlobalGetSP == [op |-> "global.get", g |-> "stack_pointer"]
GlobalSetSP == [op |-> "global.set", g |-> "stack_pointer"]
Load(kind, offset) == [op |-> kind, offset |-> offset]
Drop == [op |-> "drop"]
LocalTee(id) == [op |-> "local.tee", id |-> id]
Store(kind, offset) == [op |-> kind, offset |-> offset]
I32Eqz == [op |-> "i32.eqz"]
I32Add == [op |-> "i32.add"]
I32LtU == [op |-> "i32.lt_u"]
\* if_else: the two instruction sequences, without parameter or result
IfElse(consequent, alternative) ==
    [op |-> "if", consequent |-> consequent, alternative |-> alternative]
\* loop_, and the br_if to the loop it is the last instruction of
Loop(seq) == [op |-> "loop", seq |-> seq]
BrIfLoop == [op |-> "br_if"]
Block(seq) == [op |-> "block", seq |-> seq]
\* call of a function of the module, with the slots it takes and leaves
Call(f, params, results) ==
    [op |-> "call", f |-> f, params |-> params, results |-> results]

\* ---- the generator ----
\* WasmGenerator::new: the module holds the functions of standard.wasm
\* (the host interface), no local, no constant and an empty locals map.
HostFunctions == {"define_function", "enter_as_contract", "exit_as_contract",
                  "chain_id", "runtime-error", "define_map", "map_get",
                  "map_insert", "static_contract_call", "stdlib.define_trait"}

\* the exports the module has before the generator adds any
StandardExports == <<>>

NewGenerator ==
    [status |-> "ok", error |-> "none",
     traversed |-> 0,                   \* top-level expressions done
     path |-> <<>>,                     \* the expression being compiled
     code |-> <<>>,                     \* the current builder
     funcs |-> <<>>,                    \* functions finished, in order
     exports |-> StandardExports,       \* module.exports, in order
     locals |-> <<>>,                   \* self.locals: "name.n" -> local
     constants |-> <<>>,                \* self.constants: name -> offset
     traits |-> {},                     \* the traits define-trait has defined
     local_types |-> <<>>,              \* module.locals: local -> ValType
     pool |-> NewPool,
     events |-> <<>>]

\* Err(e) returned, and carried to the caller by `?`
Err(g, e) == [g EXCEPT !.status = "err", !.error = e]
\* panic!: expect() on None, todo!(), unimplemented!(), assert!
Panic(g, what) == [g EXCEPT !.status = "panic", !.error = what]

\* Every instruction is kept with the path of the expression whose handler
\* emitted it: <<i>> is the i-th top-level expression, p \o <<n>> the n-th
\* argument of the list at p (for a binding list, the value of its n-th pair).
EmitBy(g, instrs) ==
    [g EXCEPT !.code = @ \o [n \in 1..Len(instrs) |->
                                [instr |-> instrs[n], by |-> g.path]]]

\* an instruction of a builder, without the path of its expression
Ins(x) == IF "instr" \in DOMAIN x THEN x.instr ELSE x

Note(g, ev) == [g EXCEPT !.events = Append(@, ev)]

\* module.locals.add(ty): the new local is the last one
AddLocal(g, ty) == [g EXCEPT !.local_types = Append(@, ty)]
LastLocal(g) == Len(g.local_types)

\* module.funcs.by_name(name) is Some
FuncDefined(g, name) ==
    \/ name \in HostFunctions
    \/ \E i \in 1..Len(g.funcs) : g.funcs[i].name = name

\* the map with key k set to v (HashMap::insert)
MapInsert(m, k, v) == (k :> v) @@ m

\* add_placeholder_for_type / add_placeholder_for_clarity_type, as emitted
PlaceholderCode(ty) ==
    LET w == clar2wasm_ty(ty)
    IN [n \in 1..Len(w) |-> IF w[n] = "i32" THEN I32Const(0) ELSE I64Const(Zeros(8))]

\* drop_value: one drop per slot of the type
DropCode(ty) == [n \in 1..Len(clar2wasm_ty(ty)) |-> Drop]

\* visit_literal_value of an Int: the two halves as constants, low first
LiteralCode(i) ==
    [n \in 1..2 |-> I64Const(visit_literal_value(i)[n].v)]

\* read_from_memory, as emitted, for the Int the constants hold
ReadIntCode(offset_local) ==
    << LocalGet(offset_local), Load("i64.load", 0),
       LocalGet(offset_local), Load("i64.load", 8) >>

\* lookup_reserved_variable: the code for a native variable
ReservedCode(name, ty) ==
    CASE name = "true" -> <<I32Const(1)>>
      [] name = "false" -> <<I32Const(0)>>
      [] name = "none" -> PlaceholderCode(ty)
      [] name = "chain-id" -> <<Call("chain_id", 0, <<"i64", "i64">>)>>

\* lookup_constant_variable: the constant's offset is put in a new local and
\* the value is read from memory
lookup_constant_variable(g, name, ty) ==
    LET g1 == AddLocal(g, "i32")
        l == LastLocal(g1)
    IN EmitBy(g1, <<I32Const(g.constants[name]), LocalSet(l)>> \o ReadIntCode(l))

\* the slots n of `name` the locals map has
HasLocals(g, name, ty) ==
    \A n \in 1..Len(clar2wasm_ty(ty)) : <<name, n - 1>> \in DOMAIN g.locals

LocalsCode(g, name, ty) ==
    [n \in 1..Len(clar2wasm_ty(ty)) |-> LocalGet(g.locals[<<name, n - 1>>])]

\* what the name stands for where the atom is compiled
AtomEvent(g, name, resolved) ==
    [ev |-> "atom", name |-> name, resolved |-> resolved,
     reserved |-> name \in NativeVariableNames,
     constant |-> name \in DOMAIN g.constants,
     local |-> \E k \in DOMAIN g.locals : k[1] = name,
     function |-> FuncDefined(g, name)]

\* visit_atom with the contract's constants looked up before the native
\* variables
visit_atom_constants_first(g, expr) ==
    IF get_expr_type(expr) = Untyped
    THEN Note(Err(g, "InternalError"),
              [ev |-> "untyped", at |-> "visit_atom", outcome |-> "err"])
    ELSE IF expr.name \in DOMAIN g.constants
    THEN Note(lookup_constant_variable(g, expr.name, expr.ty),
              AtomEvent(g, expr.name, "constant"))
    ELSE IF expr.name \in NativeVariableNames
    THEN Note(EmitBy(g, ReservedCode(expr.name, expr.ty)),
              AtomEvent(g, expr.name, "reserved"))
    ELSE IF HasLocals(g, expr.name, expr.ty)
    THEN Note(EmitBy(g, LocalsCode(g, expr.name, expr.ty)),
              AtomEvent(g, expr.name, "local"))
    ELSE Note(Err(g, "InternalError"), AtomEvent(g, expr.name, "none"))

\* visit_atom: the type is required, then the name is looked up as a native
\* variable, as a constant, as a local; else the compilation fails
visit_atom(g, expr) ==
    IF get_expr_type(expr) = Untyped
    THEN Note(Err(g, "InternalError"),
              [ev |-> "untyped", at |-> "visit_atom", outcome |-> "err"])
    ELSE IF expr.name \in NativeVariableNames
    THEN Note(EmitBy(g, ReservedCode(expr.name, expr.ty)),
              AtomEvent(g, expr.name, "reserved"))
    ELSE IF expr.name \in DOMAIN g.constants
    THEN Note(lookup_constant_variable(g, expr.name, expr.ty),
              AtomEvent(g, expr.name, "constant"))
    ELSE IF HasLocals(g, expr.name, expr.ty)
    THEN Note(EmitBy(g, LocalsCode(g, expr.name, expr.ty)),
              AtomEvent(g, expr.name, "local"))
    ELSE Note(Err(g, "InternalError"), AtomEvent(g, expr.name, "none"))

\* ---- the handlers ----
RECURSIVE traverse_expr(_, _)
RECURSIVE traverse_statement_list(_, _, _)
RECURSIVE traverse_args(_, _, _)
RECURSIVE traverse_bindings(_, _, _)

\* traverse_expr of the n-th child of the expression being compiled; an error
\* is carried to the caller by `?`
traverse_child(g, n, expr) ==
    IF g.status # "ok" THEN g
    ELSE LET g1 == traverse_expr([g EXCEPT !.path = Append(@, n)], expr)
         IN [g1 EXCEPT !.path = g.path]

\* the instructions emitted after a step that may have failed
Then(g, instrs) == IF g.status # "ok" THEN g ELSE EmitBy(g, instrs)

\* visit_literal_value: Int and UInt literals are two constants; the values
\* that have no case are NotImplemented
visit_literal(g, expr) ==
    IF expr.value.k \in {"int", "uint"}
    THEN EmitBy(g, LiteralCode(expr.value.i))
    ELSE Err(g, "NotImplemented")

\* traverse_some: the indicator, then the value
traverse_some(g, expr) ==
    traverse_child(EmitBy(g, <<I32Const(1)>>), 1, expr.args[1])

\* traverse_ok: the indicator, the value, then placeholders for the err type
traverse_ok(g, expr) ==
    LET g1 == traverse_child(EmitBy(g, <<I32Const(1)>>), 1, expr.args[1])
    IN IF g1.status # "ok" THEN g1
       ELSE IF get_expr_type(expr) = Untyped
       THEN Note(Panic(g1, "ok expression must be typed"),
                 [ev |-> "untyped", at |-> "traverse_ok", outcome |-> "panic"])
       ELSE IF expr.ty.k # "response" THEN Panic(g1, "expected response type")
       ELSE EmitBy(g1, PlaceholderCode(expr.ty.b))

\* traverse_err with the placeholders left after the value
traverse_err_value_first(g, expr) ==
    LET g0 == EmitBy(g, <<I32Const(0)>>)
    IN IF get_expr_type(expr) = Untyped
       THEN Note(Panic(g0, "err expression must be typed"),
                 [ev |-> "untyped", at |-> "traverse_err", outcome |-> "panic"])
       ELSE IF expr.ty.k # "response" THEN Panic(g0, "expected response type")
       ELSE Then(traverse_child(g0, 1, expr.args[1]), PlaceholderCode(expr.ty.a))

\* traverse_err: the indicator, placeholders for the ok type, then the value
traverse_err(g, expr) ==
    LET g0 == EmitBy(g, <<I32Const(0)>>)
    IN IF get_expr_type(expr) = Untyped
       THEN Note(Panic(g0, "err expression must be typed"),
                 [ev |-> "untyped", at |-> "traverse_err", outcome |-> "panic"])
       ELSE IF expr.ty.k # "response" THEN Panic(g0, "expected response type")
       ELSE traverse_child(EmitBy(g0, PlaceholderCode(expr.ty.a)), 1, expr.args[1])

\* traverse_as_contract: enter_as_contract, the inner expression,
\* exit_as_contract
traverse_as_contract(g, expr) ==
    Then(traverse_child(EmitBy(g, <<Call("enter_as_contract", 0, <<>>)>>),
                        1, expr.args[1]),
         <<Call("exit_as_contract", 0, <<>>)>>)

\* the arguments from the n-th on, left to right
traverse_args(g, args, n) ==
    IF n > Len(args) \/ g.status # "ok" THEN g
    ELSE traverse_args(traverse_child(g, n, args[n]), args, n + 1)

\* the function's entry in module.funcs
FuncNamed(g, name) ==
    g.funcs[CHOOSE i \in 1..Len(g.funcs) : g.funcs[i].name = name]

\* visit_call_user_defined: the call instruction; by_name(..).expect().
\* (The contracts here call no function of the standard library by name.)
visit_call_user_defined(g, expr) ==
    IF g.status # "ok" THEN g
    ELSE IF ~ FuncDefined(g, expr.f) \/ expr.f \in HostFunctions
    THEN Panic(g, "function not found")
    ELSE EmitBy(g, <<Call(expr.f, Len(FuncNamed(g, expr.f).params),
                          FuncNamed(g, expr.f).results)>>)

\* a call emitted before the code of its arguments
call_before_args(g, expr) ==
    traverse_args(visit_call_user_defined(g, expr), expr.args, 1)

\* traverse_call_user_defined: the arguments in order, then the call
traverse_call_user_defined(g, expr) ==
    visit_call_user_defined(traverse_args(g, expr.args, 1), expr)

\* traverse_statement_list, after a statement: if it is not the last and has
\* a type, its value is dropped
statement_done(g, stmt, is_last) ==
    IF g.status # "ok" \/ is_last THEN g
    ELSE IF get_expr_type(stmt) # Untyped THEN EmitBy(g, DropCode(stmt.ty))
    ELSE IF stmt.e = "list" /\ stmt.f \in DefineFunctionNames THEN g
    ELSE Note(g, [ev |-> "untyped", at |-> "traverse_statement_list",
                  outcome |-> "skipped"])

\* traverse_statement_list: every statement but the last is traversed and,
\* if it has a type, its value is dropped; then the last is traversed.
\* The statements are the arguments base + 1, base + 2, ... of the list.
traverse_statement_list(g, statements, base) ==
    IF g.status # "ok" THEN g
    ELSE IF statements = <<>>
    THEN Panic(g, "statement list must have at least one statement")
    ELSE LET g1 == statement_done(traverse_child(g, base + 1, Head(statements)),
                                  Head(statements), Len(statements) = 1)
         IN IF Len(statements) = 1 THEN g1
            ELSE traverse_statement_list(g1, Tail(statements), base + 1)

\* the locals map left when the form is done, given the map saved at entry
RestoreSkipped(g, saved) == g

\* generator.bindings = saved_locals / self.locals = top_level_locals
RestoreLocals(g, saved) == [g EXCEPT !.locals = saved]

\* the form at the current path was entered with the locals map `before`
\* and has been compiled
ScopeEvent(g, form, before) ==
    Note(g, [ev |-> "scope", form |-> form, before |-> before,
             after |-> g.locals])

\* is_reserved_name: the name of a native variable or function, of a
\* function the module has, or of a trait defined before
is_reserved_name(g, name) ==
    \/ name \in NativeVariableNames
    \/ name \in NativeFunctionNames \cup DefineFunctionNames \cup {"let"}
    \/ FuncDefined(g, name)
    \/ name \in g.traits

\* save_to_locals: one new local per slot, set from the top of the stack
\* down; the locals are returned in slot order
save_to_locals(g, ty) ==
    LET w == clar2wasm_ty(ty)
        n0 == Len(g.local_types)
        g1 == [g EXCEPT !.local_types =
                  @ \o [n \in 1..Len(w) |-> w[Len(w) + 1 - n]]]
    IN [g |-> EmitBy(g1, [n \in 1..Len(w) |-> LocalSet(n0 + n)]),
        locals |-> [n \in 1..Len(w) |-> n0 + Len(w) + 1 - n]]

\* bindings.insert(name, ty, locals)
InsertBinding(g, name, locals) ==
    [g EXCEPT !.locals =
        [k \in {j \in DOMAIN @ : j[1] # name}
                \cup {<<name, n - 1>> : n \in 1..Len(locals)} |->
            IF k[1] = name THEN locals[k[2] + 1] ELSE @[k]]]

\* Let::traverse, the loop over the bindings from the n-th on
traverse_bindings(g, pairs, n) ==
    IF n > Len(pairs) \/ g.status # "ok" THEN g
    ELSE IF is_reserved_name(g, pairs[n].name) THEN Err(g, "InternalError")
    ELSE LET g0 == [g EXCEPT !.path = @ \o <<1>>]
             g1 == [traverse_child(g0, n, pairs[n].value) EXCEPT !.path = g.path]
         IN IF g1.status # "ok" THEN g1
            ELSE IF get_expr_type(pairs[n].value) = Untyped
            THEN Note(Err(g1, "TypeError"),
                      [ev |-> "untyped", at |-> "let value", outcome |-> "err"])
            ELSE LET s == save_to_locals(g1, pairs[n].value.ty)
                 IN traverse_bindings(
                        InsertBinding(s.g, pairs[n].name, s.locals), pairs, n + 1)

\* Let::traverse
traverse_let(g, expr) ==
    IF Len(expr.args) < 2 THEN Err(g, "ArgumentLengthError")
    ELSE IF expr.args[1].e # "bindings" THEN Err(g, "InternalError")
    ELSE LET saved_locals == g.locals
             g1 == traverse_bindings(g, expr.args[1].pairs, 1)
         IN IF g1.status # "ok" THEN g1
            ELSE IF get_expr_type(expr) = Untyped
            THEN Note(Err(g1, "TypeError"),
                      [ev |-> "untyped", at |-> "let", outcome |-> "err"])
            ELSE LET body == [n \in 1..(Len(expr.args) - 1) |->
                                IF n = Len(expr.args) - 1
                                THEN [expr.args[n + 1] EXCEPT !.ty = expr.ty]
                                ELSE expr.args[n + 1]]
                     g2 == traverse_statement_list(g1, body, 1)
                 IN IF g2.status # "ok" THEN g2
                    ELSE ScopeEvent(RestoreLocals(g2, saved_locals),
                                    "let", saved_locals)

\* the locals of the parameters: one per slot, keyed "name.n"
RECURSIVE ParamLocals(_, _, _)
ParamLocals(g, params, n) ==
    IF n > Len(params) THEN [g |-> g, locals |-> <<>>, types |-> <<>>]
    ELSE LET w == clar2wasm_ty(params[n].ty)
             n0 == Len(g.local_types)
             g1 == [g EXCEPT !.local_types = @ \o w]
             r == ParamLocals(g1, params, n + 1)
         IN [g |-> r.g,
             locals |-> [k \in {<<params[n].name, m - 1>> : m \in 1..Len(w)}
                            |-> n0 + k[2] + 1] @@ r.locals,
             types |-> w \o r.types]

\* traverse_define_function: the kind and the interned name are passed to
\* define_function; the body is compiled into a function of its own, between
\* the prelude and the postlude, with the parameters as the only locals.
traverse_define_function(g, expr, kind) ==
    LET sig == expr.args[1]
        g0 == EmitBy(g, <<I32Const(CASE kind = "read-only" -> 0
                                     [] kind = "public" -> 1
                                     [] kind = "private" -> 2)>>)
    IN IF ~ sig.known THEN Err(g0, "InternalError")
       ELSE
       LET id == add_identifier_string_literal(g0.pool, NameBytes[sig.name])
           g1 == EmitBy([g0 EXCEPT !.pool = id.g],
                        <<I32Const(id.offset), I32Const(id.len),
                          Call("define_function", 3, <<>>)>>)
           p == ParamLocals(g1, sig.params, 1)
           g2 == AddLocal(p.g, "i32")
           frame_pointer == LastLocal(g2)
           top_level_locals == g.locals
           g3 == traverse_child([g2 EXCEPT !.locals = p.locals, !.code = <<>>],
                                2, expr.args[2])
       IN IF g3.status # "ok" THEN g3
          ELSE ScopeEvent(
                 RestoreLocals(
                   [g3 EXCEPT
                      !.code = g1.code,
                      !.funcs = Append(@,
                          [name |-> sig.name, kind |-> kind,
                           params |-> p.types,
                           first_param |-> Len(g1.local_types) + 1,
                           results |-> clar2wasm_ty(sig.returns),
                           code |-> << GlobalGetSP, LocalSet(frame_pointer),
                                       Block(g3.code),
                                       LocalGet(frame_pointer), GlobalSetSP >>])],
                   top_level_locals),
                 "define", top_level_locals)

\* module.exports.add(name, function_id)
AddExport(g, name) ==
    IF g.status # "ok" THEN g ELSE [g EXCEPT !.exports = Append(@, name)]

\* a private function that is exported like a public one
traverse_define_private_exported(g, expr) ==
    AddExport(traverse_define_function(g, expr, "private"), expr.args[1].name)

\* traverse_define_private: the function is defined and not exported
traverse_define_private(g, expr) ==
    traverse_define_function(g, expr, "private")

\* traverse_define_read_only: the function is defined and exported by name
traverse_define_read_only(g, expr) ==
    AddExport(traverse_define_function(g, expr, "read-only"), expr.args[1].name)

\* traverse_define_public: the function is defined and exported by name
traverse_define_public(g, expr) ==
    AddExport(traverse_define_function(g, expr, "public"), expr.args[1].name)

\* traverse_define_constant of a literal value: the value is added to the
\* literal memory and the constant is mapped to its offset
traverse_define_constant(g, expr) ==
    LET r == add_literal(g.pool, expr.args[2].value)
    IN [g EXCEPT !.pool = r.g,
                 !.constants = MapInsert(@, expr.args[1].name, r.offset)]

\* the value on top of the stack, of slots w, is saved in new locals: one
\* local per slot, set from the top of the stack down; fetch gets them back
\* in slot order
StashValue(g, w) ==
    LET n0 == Len(g.local_types)
        g1 == [g EXCEPT !.local_types =
                  @ \o [n \in 1..Len(w) |-> w[Len(w) + 1 - n]]]
    IN [g |-> EmitBy(g1, [n \in 1..Len(w) |-> LocalSet(n0 + n)]),
        fetch |-> [n \in 1..Len(w) |-> LocalGet(n0 + Len(w) + 1 - n)]]

\* i32_const(Trap::Panic), call runtime-error
ThrowPanic == << [op |-> "i32.const", trap |-> "Panic"],
                 Call("runtime-error", 1, <<>>) >>

\* an unwrap-panic that gives the saved value back without testing the
\* indicator
visit_unwrap_panic_unchecked(g, expr) ==
    LET input_ty == get_expr_type(expr.args[1])
    IN IF g.status # "ok" THEN g
       ELSE IF input_ty = Untyped
       THEN Panic(g, "try input expression must be typed")
       ELSE IF input_ty.k = "optional"
       THEN LET s == StashValue(g, clar2wasm_ty(input_ty.a))
            IN EmitBy(s.g, <<Drop>> \o s.fetch)
       ELSE IF input_ty.k = "response"
       THEN LET s == StashValue(EmitBy(g, DropCode(input_ty.b)),
                                clar2wasm_ty(input_ty.a))
            IN EmitBy(s.g, <<Drop>> \o s.fetch)
       ELSE Err(g, "NotImplemented")

\* visit_unwrap_panic: the input is on the stack.  The err value of a
\* response is dropped, the some / ok value is saved in locals, the
\* indicator is tested: 0 calls runtime-error, else the value is pushed back
visit_unwrap_panic(g, expr) ==
    LET input_ty == get_expr_type(expr.args[1])
    IN IF g.status # "ok" THEN g
       ELSE IF input_ty = Untyped
       THEN Panic(g, "try input expression must be typed")
       ELSE IF input_ty.k = "optional"
       THEN LET s == StashValue(g, clar2wasm_ty(input_ty.a))
            IN EmitBy(s.g, <<I32Eqz, IfElse(ThrowPanic, <<>>)>> \o s.fetch)
       ELSE IF input_ty.k = "response"
       THEN LET s == StashValue(EmitBy(g, DropCode(input_ty.b)),
                                clar2wasm_ty(input_ty.a))
            IN EmitBy(s.g, <<I32Eqz, IfElse(ThrowPanic, <<>>)>> \o s.fetch)
       ELSE Err(g, "NotImplemented")

\* traverse_unwrap_panic
traverse_unwrap_panic(g, expr) ==
    visit_unwrap_panic(traverse_child(g, 1, expr.args[1]), expr)

\* traverse_unwrap: the input, then the thrown expression
traverse_unwrap(g, expr) ==
    traverse_child(traverse_child(g, 1, expr.args[1]), 2, expr.args[2])

\* traverse_unwrap_err: the input, then the thrown expression
traverse_unwrap_err(g, expr) ==
    traverse_child(traverse_child(g, 1, expr.args[1]), 2, expr.args[2])

\* traverse_if: the condition, the then expression and the else expression,
\* one after the other in the same builder
traverse_if(g, expr) ==
    traverse_child(
        traverse_child(traverse_child(g, 1, expr.args[1]), 2, expr.args[2]),
        3, expr.args[3])

\* a create_call_stack_local that leaves the stack pointer where it is
call_stack_local_unreserved(g, ty, include_repr, include_value) ==
    LET size == IF include_value THEN get_type_in_memory_size(ty, include_repr)
                ELSE get_type_size(ty)
        g1 == AddLocal(g, "i32")
        offset == LastLocal(g1)
    IN [g |-> EmitBy(g1, <<GlobalGetSP, LocalSet(offset)>>),
        offset |-> offset, size |-> size]

\* create_call_stack_local, as emitted: the stack pointer is kept in a new
\* local and advanced by the size
call_stack_local(g, ty, include_repr, include_value) ==
    LET size == IF include_value THEN get_type_in_memory_size(ty, include_repr)
                ELSE get_type_size(ty)
        g1 == AddLocal(g, "i32")
        offset == LastLocal(g1)
    IN [g |-> EmitBy(g1, <<GlobalGetSP, LocalTee(offset), I32Const(size),
                          I32Add, GlobalSetSP>>),
        offset |-> offset, size |-> size]

\* write_to_memory, as emitted: the two slots on top of the stack are saved
\* in new locals and stored at offset_local + offset; other types panic
WriteCode(g, offset_local, offset, ty) ==
    IF g.status # "ok" THEN [g |-> g, size |-> 0]
    ELSE IF ty.k \in {"int", "uint"}
    THEN LET g1 == AddLocal(AddLocal(g, "i64"), "i64")
             high == LastLocal(g1) - 1
             low == LastLocal(g1)
         IN [g |-> EmitBy(g1, << LocalSet(low), LocalSet(high),
                               LocalGet(offset_local), LocalGet(high),
                               Store("i64.store", offset),
                               LocalGet(offset_local), LocalGet(low),
                               Store("i64.store", offset + 8) >>),
             size |-> 16]
    ELSE IF ty.k \in {"principal", "sequence"}
    THEN LET g1 == AddLocal(AddLocal(g, "i32"), "i32")
             seq_offset == LastLocal(g1) - 1
             seq_length == LastLocal(g1)
         IN [g |-> EmitBy(g1, << LocalSet(seq_length), LocalSet(seq_offset),
                               LocalGet(offset_local), LocalGet(seq_offset),
                               Store("i32.store", offset),
                               LocalGet(offset_local), LocalGet(seq_length),
                               Store("i32.store", offset + 4) >>),
             size |-> 8]
    ELSE [g |-> Panic(g, "Type not yet supported for writing to memory"),
          size |-> 0]

\* read_from_memory, as emitted, and the size it returns
RECURSIVE ReadCode(_, _, _)
ReadCode(offset_local, literal_offset, ty) ==
    CASE ty.k \in {"int", "uint"} ->
            [ok |-> TRUE, size |-> 16,
             code |-> << LocalGet(offset_local), Load("i64.load", literal_offset),
                         LocalGet(offset_local),
                         Load("i64.load", literal_offset + 8) >>]
      [] ty.k = "optional" ->
            LET r == ReadCode(offset_local, literal_offset + 4, ty.a)
            IN [ok |-> r.ok, size |-> 4 + r.size,
                code |-> << LocalGet(offset_local),
                            Load("i32.load", literal_offset) >> \o r.code]
      [] ty.k = "response" ->
            LET r1 == ReadCode(offset_local, literal_offset + 4, ty.a)
                r2 == ReadCode(offset_local, literal_offset + 4 + r1.size, ty.b)
            IN [ok |-> r1.ok /\ r2.ok, size |-> 4 + r1.size + r2.size,
                code |-> << LocalGet(offset_local),
                            Load("i32.load", literal_offset) >>
                         \o r1.code \o r2.code]
      [] ty.k \in {"principal", "sequence"} ->
            [ok |-> TRUE, size |-> 8,
             code |-> << LocalGet(offset_local), Load("i32.load", literal_offset),
                         LocalGet(offset_local),
                         Load("i32.load", literal_offset + 4) >>]
      [] ty.k = "notype" -> [ok |-> TRUE, size |-> 4, code |-> <<I32Const(0)>>]
      [] OTHER -> [ok |-> FALSE, size |-> 0, code |-> <<>>]

\* the code of read_from_memory, or its panic
ThenRead(g, offset_local, ty) ==
    IF g.status # "ok" THEN g
    ELSE IF ~ ReadCode(offset_local, 0, ty).ok
    THEN Panic(g, "Type not yet supported for reading from memory")
    ELSE EmitBy(g, ReadCode(offset_local, 0, ty).code)

\* traverse_list_cons, the loop over the items from the n-th on: each is
\* traversed and written after the ones before
RECURSIVE list_cons_items(_, _, _, _, _)
list_cons_items(g, expr, offset, total_size, n) ==
    IF n > Len(expr.args) \/ g.status # "ok"
    THEN [g |-> g, total_size |-> total_size]
    ELSE LET w == WriteCode(traverse_child(g, n, expr.args[n]), offset,
                            total_size, expr.ty.item)
         IN list_cons_items(w.g, expr, offset, total_size + w.size, n + 1)

\* traverse_list_cons: space for the whole list is reserved on the call
\* stack, the items are written there, the offset and size are pushed
traverse_list_cons(g, expr) ==
    IF get_expr_type(expr) = Untyped
    THEN Panic(g, "list expression must be typed")
    ELSE IF ~ (expr.ty.k = "sequence" /\ "item" \in DOMAIN expr.ty)
    THEN Panic(g, "Expected list type for list expression")
    ELSE IF expr.ty.max_len # Len(expr.args) THEN Panic(g, "list size mismatch")
    ELSE LET l == call_stack_local(g, expr.ty, FALSE, TRUE)
             r == list_cons_items(l.g, expr, l.offset, 0, 1)
         IN IF r.g.status # "ok" THEN r.g
            ELSE IF r.total_size # l.size THEN Panic(r.g, "list size mismatch")
            ELSE EmitBy(r.g, <<LocalGet(l.offset), I32Const(l.size)>>)

\* the body of the loop of fold
FoldLoop(g, func, offset, end_offset, elem_ty, result_locals) ==
    ReadCode(offset, 0, elem_ty).code
    \o [n \in 1..Len(result_locals) |-> LocalGet(result_locals[n])]
    \o << Call(func, Len(FuncNamed(g, func).params), FuncNamed(g, func).results) >>
    \o [n \in 1..Len(result_locals) |->
           LocalSet(result_locals[Len(result_locals) + 1 - n])]
    \o << LocalGet(offset), I32Const(ReadCode(offset, 0, elem_ty).size), I32Add,
          LocalTee(offset), LocalGet(end_offset), I32LtU, BrIfLoop >>

\* traverse_fold, once the sequence and the initial value are on the stack:
\* the result is kept in locals, the loop calls the function for the item
\* at offset and moves offset on until it reaches end_offset
fold_loop(g, expr, offset, end_offset) ==
    LET seq_ty == expr.args[2].ty
        w == clar2wasm_ty(expr.args[3].ty)
        n0 == Len(g.local_types)
        g1 == [g EXCEPT !.local_types =
                  @ \o [n \in 1..Len(w) |-> w[Len(w) + 1 - n]]]
        result_locals == [n \in 1..Len(w) |-> n0 + Len(w) + 1 - n]
    IN IF g.status # "ok" \/ seq_ty.max_len = 0 THEN g
       ELSE IF ~ ReadCode(offset, 0, seq_ty.item).ok
       THEN Panic(g, "Type not yet supported for reading from memory")
       ELSE IF ~ FuncDefined(g, expr.args[1].name)
               \/ expr.args[1].name \in HostFunctions
       THEN Panic(g, "function not found")
       ELSE EmitBy(g1,
               [n \in 1..Len(w) |-> LocalSet(n0 + n)]
               \o << Loop(FoldLoop(g, expr.args[1].name, offset, end_offset,
                                   seq_ty.item, result_locals)) >>
               \o [n \in 1..Len(w) |-> LocalGet(result_locals[n])])

\* traverse_fold: the number of rounds is the maximum length of the type of
\* the sequence
traverse_fold(g, expr) ==
    LET sequence == expr.args[2]
        initial == expr.args[3]
    IN IF get_expr_type(initial) = Untyped
       THEN Panic(g, "fold's initial value expression must be typed")
       ELSE IF get_expr_type(sequence) = Untyped
       THEN Panic(g, "sequence expression must be typed")
       ELSE IF sequence.ty.k # "sequence"
       THEN Err(g, "InternalError")
       ELSE IF "item" \notin DOMAIN sequence.ty
       THEN Panic(g, "Unsupported sequence type")
       ELSE LET g1 == traverse_child(g, 2, sequence)
                g2 == AddLocal(AddLocal(g1, "i32"), "i32")
                offset == LastLocal(g2) - 1
                end_offset == LastLocal(g2)
                g3 == EmitBy(g2, <<Drop, LocalSet(offset), LocalGet(offset),
                                   I32Const(sequence.ty.max_len
                                            * get_type_size(sequence.ty.item)),
                                   I32Add, LocalSet(end_offset)>>)
            IN IF g1.status # "ok" THEN g1
               ELSE fold_loop(traverse_child(g3, 3, initial), expr,
                              offset, end_offset)

\* visit_define_map: the name is interned and passed to define_map
traverse_define_map(g, expr) ==
    LET id == add_identifier_string_literal(g.pool, NameBytes[expr.args[1].name])
    IN EmitBy([g EXCEPT !.pool = id.g],
              <<I32Const(id.offset), I32Const(id.len), Call("define_map", 2, <<>>)>>)

\* a DefineTrait::traverse that takes any name
traverse_define_trait_unchecked(g, expr) ==
    IF Len(expr.args) # 2 THEN Err(g, "ArgumentLengthError")
    ELSE IF expr.args[1].e # "atom" THEN Err(g, "InternalError")
    ELSE LET name == expr.args[1].name
             id == add_identifier_string_literal(g.pool, NameBytes[name])
         IN IF ~ FuncDefined(g, "stdlib.define_trait") THEN Err(g, "InternalError")
            ELSE EmitBy([g EXCEPT !.pool = id.g, !.traits = @ \cup {name}],
                        <<I32Const(id.offset), I32Const(id.len),
                          Call("stdlib.define_trait", 2, <<>>)>>)

\* DefineTrait::traverse: two arguments, the first a name that is not
\* reserved; the name is interned and passed to stdlib.define_trait
traverse_define_trait(g, expr) ==
    IF Len(expr.args) # 2 THEN Err(g, "ArgumentLengthError")
    ELSE IF expr.args[1].e # "atom" THEN Err(g, "InternalError")
    ELSE LET name == expr.args[1].name
         IN IF is_reserved_name(g, name) THEN Err(g, "InternalError")
            ELSE LET id == add_identifier_string_literal(g.pool, NameBytes[name])
                 IN IF ~ FuncDefined(g, "stdlib.define_trait")
                    THEN Err(g, "InternalError")
                    ELSE EmitBy([g EXCEPT !.pool = id.g, !.traits = @ \cup {name}],
                                <<I32Const(id.offset), I32Const(id.len),
                                  Call("stdlib.define_trait", 2, <<>>)>>)

\* the name of the map, then the key written to space reserved for it, then
\* the key's offset and size: the start of traverse_map_get / _insert
map_key(g, expr) ==
    LET name == NameBytes[expr.args[1].name]
        key == expr.args[2]
    IN IF ~ LookupHit(g.pool, name) THEN [g |-> Panic(g, "map not found")]
       ELSE IF get_expr_type(key) = Untyped
       THEN [g |-> Panic(g, "map-set value expression must be typed")]
       ELSE LET g1 == EmitBy(g, <<I32Const(g.pool.literal_memory_offet[name]),
                                  I32Const(Len(name))>>)
                l == call_stack_local(g1, key.ty, TRUE, FALSE)
                w == WriteCode(traverse_child(l.g, 2, key), l.offset, 0, key.ty)
            IN [g |-> Then(w.g, <<LocalGet(l.offset), I32Const(l.size)>>)]

\* traverse_map_get: the key, space for the result, map_get, and the result
\* read back from that space
traverse_map_get(g, expr) ==
    LET g1 == map_key(g, expr).g
    IN IF g1.status # "ok" THEN g1
       ELSE IF get_expr_type(expr) = Untyped
       THEN Panic(g1, "map-get? expression must be typed")
       ELSE LET l == call_stack_local(g1, expr.ty, TRUE, TRUE)
            IN ThenRead(EmitBy(l.g, <<LocalGet(l.offset), I32Const(l.size),
                                      Call("map_get", 6, <<>>)>>),
                        l.offset, expr.ty)

\* traverse_map_insert: the key, then the value written to space reserved
\* for it, then map_insert, whose result is the result
traverse_map_insert(g, expr) ==
    LET g1 == map_key(g, expr).g
        value == expr.args[3]
    IN IF g1.status # "ok" THEN g1
       ELSE IF get_expr_type(value) = Untyped
       THEN Panic(g1, "map-set value expression must be typed")
       ELSE LET l == call_stack_local(g1, value.ty, TRUE, FALSE)
                w == WriteCode(traverse_child(l.g, 3, value), l.offset, 0,
                               value.ty)
            IN Then(w.g, <<LocalGet(l.offset), I32Const(l.size),
                           Call("map_insert", 6, <<"i32">>)>>)

\* traverse_static_contract_call, the loop over the arguments from the n-th
\* on: each is traversed and written at arg_offset + arg_length
RECURSIVE contract_call_args(_, _, _, _, _)
contract_call_args(g, expr, arg_offset, arg_length, n) ==
    IF n > Len(expr.args) \/ g.status # "ok"
    THEN [g |-> g, arg_length |-> arg_length]
    ELSE LET g1 == traverse_child(g, n, expr.args[n])
         IN IF g1.status = "ok" /\ get_expr_type(expr.args[n]) = Untyped
            THEN [g |-> Panic(g1, "contract-call? argument must be typed"),
                  arg_length |-> arg_length]
            ELSE LET w == WriteCode(g1, arg_offset, arg_length, expr.args[n].ty)
                 IN contract_call_args(w.g, expr, arg_offset,
                                       arg_length + w.size, n + 1)

\* traverse_static_contract_call: the contract identifier and the function
\* name are literals; the arguments are written from the stack pointer on;
\* space is reserved for the result, which static_contract_call fills and
\* read_from_memory reads back
traverse_static_contract_call(g, expr) ==
    LET id == add_literal(g.pool, expr.args[1].value)
        fn == add_identifier_string_literal(id.g, NameBytes[expr.args[2].name])
        g1 == AddLocal(EmitBy([g EXCEPT !.pool = fn.g],
                              << I32Const(id.offset), I32Const(id.len),
                                 I32Const(fn.offset), I32Const(fn.len) >>),
                       "i32")
        arg_offset == LastLocal(g1)
        r == contract_call_args(EmitBy(g1, <<GlobalGetSP, LocalSet(arg_offset)>>),
                                expr, arg_offset, 0, 3)
    IN IF r.g.status # "ok" THEN r.g
       ELSE IF get_expr_type(expr) = Untyped
       THEN Panic(r.g, "contract-call? expression must be typed")
       ELSE LET l == call_stack_local(
                        EmitBy(r.g, <<LocalGet(arg_offset), I32Const(r.arg_length)>>),
                        expr.ty, TRUE, TRUE)
            IN ThenRead(EmitBy(l.g, << LocalGet(l.offset), I32Const(l.size),
                                       Call("static_contract_call", 8, <<>>) >>),
                        l.offset, expr.ty)

\* ArgumentsExt::get_expr(n) is Err for a list without an n-th argument
\* (n counted from 1 here)
MissingArg(expr, n) == Len(expr.args) < n

\* the define functions that take a signature and a body
traverse_define(g, expr) ==
    IF expr.args[1].e # "signature" THEN Err(g, "NotImplemented")
    ELSE CASE expr.f = "define-private" -> traverse_define_private(g, expr)
           [] expr.f = "define-read-only" -> traverse_define_read_only(g, expr)
           [] expr.f = "define-public" -> traverse_define_public(g, expr)

\* the native functions that take one expression
traverse_native(g, expr) ==
    IF MissingArg(expr, 1) THEN Err(g, "InternalError")
    ELSE CASE expr.f = "ok" -> traverse_ok(g, expr)
           [] expr.f = "err" -> traverse_err(g, expr)
           [] expr.f = "some" -> traverse_some(g, expr)
           [] expr.f = "as-contract" -> traverse_as_contract(g, expr)

\* the native functions that take an input and a thrown expression: unwrap!
\* (UnwrapRet), unwrap-err! (UnwrapErrRet) and unwrap-err-panic (UnwrapErr)
traverse_native_unwrap(g, expr) ==
    IF MissingArg(expr, 2) THEN Err(g, "InternalError")
    ELSE CASE expr.f = "unwrap!" -> traverse_unwrap(g, expr)
           [] expr.f \in {"unwrap-err!", "unwrap-err-panic"} ->
                 traverse_unwrap_err(g, expr)

\* the native functions whose first argument is a name: fold, map-get? and
\* map-insert
traverse_native_named(g, expr) ==
    IF MissingArg(expr, 1) \/ expr.args[1].e # "atom" THEN Err(g, "InternalError")
    ELSE CASE expr.f = "map-get?" ->
                 IF MissingArg(expr, 2) THEN Err(g, "InternalError")
                 ELSE traverse_map_get(g, expr)
           [] expr.f = "map-insert" ->
                 IF MissingArg(expr, 3) THEN Err(g, "InternalError")
                 ELSE traverse_map_insert(g, expr)
           [] expr.f = "fold" ->
                 IF MissingArg(expr, 3) THEN Err(g, "InternalError")
                 ELSE traverse_fold(g, expr)

\* contract-call?: a call of a contract given by a literal principal is
\* static, any other is dynamic
traverse_contract_call(g, expr) ==
    IF MissingArg(expr, 2) \/ expr.args[2].e # "atom" THEN Err(g, "InternalError")
    ELSE IF expr.args[1].e = "literal" /\ expr.args[1].value.k = "contract"
    THEN traverse_static_contract_call(g, expr)
    ELSE Panic(g, "dynamic contract calls are not yet supported")

\* traverse_list: a word, a define function, a native function, or else a
\* call of a user-defined function
traverse_list(g, expr) ==
    CASE expr.f = "let" -> traverse_let(g, expr)
      [] expr.f = "define-constant" ->
            IF MissingArg(expr, 2) \/ expr.args[1].e # "atom"
            THEN Err(g, "InternalError")
            ELSE traverse_define_constant(g, expr)
      [] expr.f \in {"define-private", "define-read-only", "define-public"} ->
            IF MissingArg(expr, 2) THEN Err(g, "InternalError")
            ELSE traverse_define(g, expr)
      [] expr.f \in {"and", "or"} -> Panic(g, "not yet implemented")
      [] expr.f = "begin" -> traverse_statement_list(g, expr.args, 0)
      [] expr.f \in {"ok", "err", "some", "as-contract"} ->
            traverse_native(g, expr)
      [] expr.f = "unwrap-panic" ->
            IF MissingArg(expr, 1) THEN Err(g, "InternalError")
            ELSE traverse_unwrap_panic(g, expr)
      [] expr.f \in {"unwrap!", "unwrap-err!", "unwrap-err-panic"} ->
            traverse_native_unwrap(g, expr)
      [] expr.f = "define-trait" -> traverse_define_trait(g, expr)
      [] expr.f = "define-map" ->
            IF MissingArg(expr, 3) \/ expr.args[1].e # "atom"
            THEN Err(g, "InternalError")
            ELSE traverse_define_map(g, expr)
      [] expr.f = "list" -> traverse_list_cons(g, expr)
      [] expr.f \in {"fold", "map-get?", "map-insert"} ->
            traverse_native_named(g, expr)
      [] expr.f = "contract-call?" -> traverse_contract_call(g, expr)
      [] expr.f = "if" ->
            IF MissingArg(expr, 3) THEN Err(g, "InternalError")
            ELSE traverse_if(g, expr)
      [] OTHER -> traverse_call_user_defined(g, expr)

\* traverse_expr: the handler of the kind of expression
traverse_expr(g, expr) ==
    IF g.status # "ok" THEN g
    ELSE CASE expr.e = "literal" -> visit_literal(g, expr)
           [] expr.e = "atom" -> visit_atom(g, expr)
           [] expr.e = "list" -> traverse_list(g, expr)
           [] OTHER -> g

\* ---- the contracts compiled ----
MaxStatements == 2

One == IntValue(<<1>> \o Zeros(15))
Two == IntValue(<<2>> \o Zeros(15))
RespIntInt == ResponseType(IntType, IntType)
RespIntBool == ResponseType(IntType, BoolType)
RespBoolInt == ResponseType(BoolType, IntType)

Param(name, ty) == [name |-> name, ty |-> ty]
Pair(name, value) == [name |-> name, value |-> value]

\* (define-private (f (x int) (y int)) y)
DefinePrivateF ==
    List("define-private",
         <<Signature("f", <<Param("x", IntType), Param("y", IntType)>>, IntType, TRUE),
           Atom("y", IntType)>>, Untyped)

\* (define-public (g) (ok 1))
DefinePublicG ==
    List("define-public",
         <<Signature("g", <<>>, RespIntInt, TRUE),
           List("ok", <<Lit(One, IntType)>>, RespIntInt)>>, Untyped)

\* (define-read-only (f (x int) (y int)) (let ((x 2)) x))
DefineReadOnlyF ==
    List("define-read-only",
         <<Signature("f", <<Param("x", IntType), Param("y", IntType)>>, IntType, TRUE),
           List("let", <<Bindings(<<Pair("x", Lit(Two, IntType))>>),
                         Atom("x", IntType)>>, IntType)>>, Untyped)

\* (define-private (g (chain-id int) (k int)) k), the body being chain-id
\* when `reserved`
DefineShadowing(reserved) ==
    List("define-private",
         <<Signature("g", <<Param("chain-id", IntType), Param("k", IntType)>>,
                     IntType, TRUE),
           IF reserved THEN Atom("chain-id", IntType) ELSE Atom("k", IntType)>>,
         Untyped)

\* (f 1 (f 2 1))
CallF ==
    List("f", <<Lit(One, IntType),
                List("f", <<Lit(Two, IntType), Lit(One, IntType)>>, IntType)>>,
         IntType)

\* the expressions a contract is made of
Statements ==
    { Lit(One, IntType),
      Lit(One, Untyped),
      Lit([k |-> "bool"], BoolType),
      Atom("true", BoolType),
      Atom("k", IntType),
      Atom("k", Untyped),
      Atom("f", IntType),
      List("define-constant", <<Atom("k", Untyped), Lit(Two, IntType)>>, Untyped),
      List("define-constant", <<Atom("chain-id", Untyped), Lit(Two, IntType)>>, Untyped),
      Atom("chain-id", IntType),
      DefinePrivateF,
      DefinePublicG,
      DefineReadOnlyF,
      DefineShadowing(TRUE),
      DefineShadowing(FALSE),
      List("define-public",
           <<Signature("g", <<>>, RespIntInt, FALSE),
             List("ok", <<Lit(One, IntType)>>, RespIntInt)>>, Untyped),
      CallF,
      List("g", <<>>, RespIntInt),
      List("as-contract", <<CallF>>, IntType),
      List("as-contract", <<Lit(One, IntType)>>, IntType),
      List("ok", <<Lit(One, IntType)>>, RespIntBool),
      List("err", <<Atom("true", BoolType)>>, RespIntBool),
      List("err", <<Lit(One, IntType)>>, RespBoolInt),
      List("ok", <<List("err", <<Lit(One, IntType)>>, RespBoolInt)>>,
           ResponseType(RespBoolInt, IntType)),
      List("ok", <<Lit(One, IntType)>>, Untyped),
      List("ok", <<>>, RespIntInt),
      List("some", <<Lit(One, IntType)>>, OptionalType(IntType)),
      List("let", <<Bindings(<<Pair("x", Lit(One, IntType)),
                               Pair("y", Atom("x", IntType))>>),
                    Lit(Two, IntType), Atom("y", IntType)>>, IntType),
      List("let", <<Bindings(<<Pair("true", Lit(One, IntType))>>),
                    Atom("true", IntType)>>, IntType),
      List("let", <<Bindings(<<Pair("x", Lit(One, Untyped))>>),
                    Atom("x", IntType)>>, IntType),
      Atom("x", IntType),
      List("and", <<Atom("true", BoolType), Atom("false", BoolType)>>, BoolType),
      List("begin", <<Lit(One, Untyped), Lit(Two, IntType)>>, IntType) }

\* the contracts: up to MaxStatements top-level expressions
Programs ==
    UNION { [1..n -> Statements] : n \in 0..MaxStatements }

\* ---- generate() ----
InitTraverse ==
    /\ CodecIdle /\ GenInit /\ RunIdle /\ SerializeIdle
    /\ program \in Programs
    /\ gen = NewGenerator
    /\ result = [kind |-> "none"]
    /\ first = [kind |-> "none"]
    /\ machine = [status |-> "idle"]

\* the type of the last top-level expression gives the top-level function's
\* results; no result when the expression has no type
TopLevelReturnTy ==
    IF program # <<>> /\ get_expr_type(program[Len(program)]) # Untyped
    THEN clar2wasm_ty(program[Len(program)].ty)
    ELSE <<>>

\* the next top-level expression to traverse
NextStatement == gen.traversed + 1

\* One round of the loop of traverse_statement_list over the top-level
\* expressions.
TraverseTopLevel ==
    /\ result.kind = "none"
    /\ gen.status = "ok"
    /\ NextStatement <= Len(program)
    /\ gen' = [statement_done(
                  traverse_child(gen, NextStatement, program[NextStatement]),
                  program[NextStatement], NextStatement = Len(program))
               EXCEPT !.traversed = @ + 1]
    /\ UNCHANGED <<cvars, gvars, rvars, svars, program, result, first, machine>>

\* generate() returns Ok(module): the top-level function is finished and
\* exported, the stack pointer is initialised
GenerateOk ==
    /\ result.kind = "none"
    /\ gen.status = "ok"
    /\ NextStatement > Len(program)
    /\ result' = [kind |-> "module",
                  funcs |-> Append(gen.funcs,
                               [name |-> ".top-level", kind |-> "top-level",
                                params |-> <<>>, results |-> TopLevelReturnTy,
                                first_param |-> 0, code |-> gen.code]),
                  exports |-> Append(gen.exports, ".top-level"),
                  locals |-> gen.local_types,
                  stack_pointer |-> StackPointerInit(gen.pool),
                  data |-> gen.pool.data]
    /\ UNCHANGED <<cvars, gvars, rvars, svars, program, gen, first, machine>>

\* generate() returns Err(e): `?` carried the error out of the traversal
GenerateErr ==
    /\ result.kind = "none"
    /\ gen.status = "err"
    /\ result' = [kind |-> "err", error |-> gen.error]
    /\ UNCHANGED <<cvars, gvars, rvars, svars, program, gen, first, machine>>

\* the traversal panicked: generate() does not return
GeneratePanic ==
    /\ result.kind = "none"
    /\ gen.status = "panic"
    /\ result' = [kind |-> "panic", message |-> gen.error]
    /\ UNCHANGED <<cvars, gvars, rvars, svars, program, gen, first, machine>>

NextTraverse ==
    \/ TraverseTopLevel
    \/ GenerateOk
    \/ GenerateErr
    \/ GeneratePanic

SpecTraverse == InitTraverse /\ [][NextTraverse]_vars

\* ---- what is observed of a compilation ----
\* the events of one kind
Events(kind) == { n \in 1..Len(gen.events) : gen.events[n].ev = kind }

\* the builders of the module: the top-level function's, and the body block
\* of every function defined
Builders ==
    {gen.code} \cup { gen.funcs[i].code[3].seq : i \in 1..Len(gen.funcs) }

\* path p is path q or leads to it
IsPrefix(p, q) == Len(p) <= Len(q) /\ SubSeq(q, 1, Len(p)) = p

\* the expression at a path
ChildOf(expr, n) ==
    IF expr.e = "bindings" THEN expr.pairs[n].value ELSE expr.args[n]

RECURSIVE NodeIn(_, _)
NodeIn(expr, path) ==
    IF path = <<>> THEN expr ELSE NodeIn(ChildOf(expr, Head(path)), Tail(path))

NodeAt(path) == NodeIn(program[Head(path)], Tail(path))

\* the instructions a builder holds for the expression at p, its
\* sub-expressions included
RECURSIVE Segment(_, _)
Segment(code, p) ==
    IF code = <<>> THEN <<>>
    ELSE (IF IsPrefix(p, Head(code).by) THEN <<Head(code).instr>> ELSE <<>>)
         \o Segment(Tail(code), p)

\* the operand stack (slot types) a sequence of instructions leaves, from
\* the stack st; a block leaves what its sequence leaves, an if and a loop
\* take and leave nothing
RECURSIVE Shape(_, _)
ShapeAfter(i, st) ==
    CASE i.op \in {"i32.const", "global.get"} -> Append(st, "i32")
      [] i.op = "i64.const" -> Append(st, "i64")
      [] i.op = "local.get" -> Append(st, gen.local_types[i.id])
      [] i.op \in {"local.set", "drop", "global.set", "if", "br_if"} ->
            SubSeq(st, 1, Len(st) - 1)
      [] i.op \in {"local.tee", "i32.eqz", "loop"} -> st
      [] i.op \in {"i32.add", "i32.lt_u"} ->
            Append(SubSeq(st, 1, Len(st) - 2), "i32")
      [] i.op \in {"i64.store", "i32.store"} -> SubSeq(st, 1, Len(st) - 2)
      [] i.op = "i64.load" -> Append(SubSeq(st, 1, Len(st) - 1), "i64")
      [] i.op = "i32.load" -> Append(SubSeq(st, 1, Len(st) - 1), "i32")
      [] i.op = "block" -> st \o Shape(i.seq, <<>>)
      [] i.op = "call" -> SubSeq(st, 1, Len(st) - i.params) \o i.results

\* (the sequence is taken by halves)
Shape(instrs, st) ==
    IF instrs = <<>> THEN st
    ELSE IF Len(instrs) = 1 THEN ShapeAfter(Ins(instrs[1]), st)
    ELSE LET half == Len(instrs) \div 2
             mid == Shape(SubSeq(instrs, 1, half), st)
         IN IF Len(mid) >= 0
            THEN Shape(SubSeq(instrs, half + 1, Len(instrs)), mid)
            ELSE mid

\* the top-level expressions that leave a value: all but the definitions
LeavesValue(stmt) == ~ (stmt.e = "list" /\ stmt.f \in DefineFunctionNames)

\* the names of the public and read-only functions of the contract, in order
RECURSIVE PublicNames(_)
PublicNames(stmts) ==
    IF stmts = <<>> THEN <<>>
    ELSE (IF Head(stmts).e = "list"
             /\ Head(stmts).f \in {"define-public", "define-read-only"}
          THEN <<Head(stmts).args[1].name>> ELSE <<>>)
         \o PublicNames(Tail(stmts))

-----------------------------------------------------------------------------
(* The emitted module, run (SpecExec): once generate() has returned the    *)
(* module, the host instantiates it and calls .top-level; the instructions *)
(* are executed one at a time on the operand stack, the locals of the      *)
(* activation, the byte memory and the $stack-pointer global; the functions*)
(* of the host interface act on the host's state.                          *)

\* bytes of linear memory the engine keeps
MemSize == 128

\* the memory of the instance: zero, but for the active data segments
DataMemory(segments) ==
    [a \in 0..(MemSize - 1) |->
        IF \E i \in 1..Len(segments) :
              /\ a >= segments[i].offset
              /\ a < segments[i].offset + Len(segments[i].bytes)
        THEN LET i == CHOOSE j \in 1..Len(segments) :
                         /\ a >= segments[j].offset
                         /\ a < segments[j].offset + Len(segments[j].bytes)
             IN segments[i].bytes[a - segments[i].offset + 1]
        ELSE 0]

\* one activation or structured instruction being executed: the
\* instructions left; for a loop, its body; for a function, the locals of
\* its caller
Control(kind, name, code, saved) ==
    [kind |-> kind, name |-> name, code |-> code, saved |-> saved]

\* the instance, .top-level called by the host
Instantiate(module) ==
    [status |-> "run",
     stack |-> <<>>,
     locals |-> <<>>,
     mem |-> DataMemory(module.data),
     sp |-> module.stack_pointer,
     ctl |-> <<Control("func", ".top-level",
                       module.funcs[Len(module.funcs)].code, <<>>)>>,
     \* the host: whose context the code runs in, the data maps
     ctx |-> <<>>,
     maps |-> <<>>,
     \* what has been executed: calls, stores and reservations
     calls |-> <<>>,
     stores |-> <<>>,
     trap |-> "none"]

\* the function of the module with the name
ModuleFunc(name) ==
    result.funcs[CHOOSE i \in 1..Len(result.funcs) : result.funcs[i].name = name]

IsModuleFunc(name) ==
    \E i \in 1..Len(result.funcs) : result.funcs[i].name = name

\* the innermost control and the instruction to execute
Inner(m) == m.ctl[Len(m.ctl)]
Fetch(m) == Ins(Head(Inner(m).code))
\* the expression the instruction was emitted for
Emitter(m) ==
    IF "by" \in DOMAIN Head(Inner(m).code) THEN Head(Inner(m).code).by ELSE <<>>
AtEnd(m) == Inner(m).code = <<>>

\* the instruction has been executed
Advance(m) == [m EXCEPT !.ctl[Len(m.ctl)].code = Tail(@)]

Push(m, slots) == [m EXCEPT !.stack = @ \o slots]
Drop1(m, n) == [m EXCEPT !.stack = Pop(@, n)]
Enter(m, c) == [m EXCEPT !.ctl = Append(@, c)]

\* a trap: the execution stops where it is
Trapped(m, why) == [m EXCEPT !.status = "trapped", !.trap = why]

\* a local of the activation: zero until it is set
ZeroOf(ty) == IF ty = "i32" THEN I32(0) ELSE I64(Zeros(8))
LocalValue(m, id) ==
    IF id \in DOMAIN m.locals THEN m.locals[id] ELSE ZeroOf(result.locals[id])

\* the bytes of memory [offset, offset + len)
Bytes(mem, offset, len) == [i \in 1..len |-> mem[offset + i - 1]]
WriteBytes(mem, offset, bytes) ==
    [a \in DOMAIN mem |->
        IF a >= offset /\ a < offset + Len(bytes)
        THEN bytes[a - offset + 1] ELSE mem[a]]
InMemory(offset, len) == offset >= 0 /\ offset + len <= MemSize

\* ---- constants, locals, the global, arithmetic ----
ExecConstOf(m, i) ==
    CASE i.op = "i64.const" -> Push(m, <<I64(i.bytes)>>)
      [] "trap" \in DOMAIN i -> Push(m, <<[t |-> "i32", trap |-> i.trap]>>)
      [] OTHER -> Push(m, <<I32(i.v)>>)

ExecLocalOf(m, i) ==
    CASE i.op = "local.get" -> Push(m, <<LocalValue(m, i.id)>>)
      [] i.op = "local.set" ->
            Drop1([m EXCEPT !.locals = (i.id :> Top(m.stack, 0)) @@ @], 1)
      [] i.op = "local.tee" ->
            [m EXCEPT !.locals = (i.id :> Top(m.stack, 0)) @@ @]

\* the stack pointer is read or set; the region it is advanced over is
\* noted as reserved for the expression
ExecGlobalOf(m, i, for) ==
    LET top == Top(m.stack, 0).v
    IN IF i.op = "global.get" THEN Push(m, <<I32(m.sp)>>)
       ELSE IF top > m.sp
       THEN Drop1([m EXCEPT !.sp = top,
                            !.stores = Append(@, [by |-> "reserve", offset |-> m.sp,
                                                  size |-> top - m.sp, sp |-> top,
                                                  call |-> Len(m.calls),
                                                  for |-> for])], 1)
       ELSE Drop1([m EXCEPT !.sp = top], 1)

ExecNumericOf(m, i) ==
    CASE i.op = "drop" -> Drop1(m, 1)
      [] i.op = "i32.eqz" ->
            Push(Drop1(m, 1), <<I32(IF Top(m.stack, 0).v = 0 THEN 1 ELSE 0)>>)
      [] i.op = "i32.add" ->
            Push(Drop1(m, 2), <<I32(Top(m.stack, 1).v + Top(m.stack, 0).v)>>)
      [] i.op = "i32.lt_u" ->
            Push(Drop1(m, 2),
                 <<I32(IF Top(m.stack, 1).v < Top(m.stack, 0).v THEN 1 ELSE 0)>>)

\* ---- memory ----
ExecLoadOf(m, i) ==
    LET addr == Top(m.stack, 0).v + i.offset
        len == IF i.op = "i64.load" THEN 8 ELSE 4
    IN IF ~ InMemory(addr, len) THEN Trapped(m, "out of bounds memory access")
       ELSE IF i.op = "i64.load"
       THEN Push(Drop1(m, 1), <<I64(LoadI64(m.mem, addr))>>)
       ELSE Push(Drop1(m, 1), <<I32(LoadI32(m.mem, addr))>>)

\* a store, noted with the stack pointer it was made under and the
\* expression it was emitted for
ExecStoreOf(m, i, for) ==
    LET addr == Top(m.stack, 1).v + i.offset
        len == IF i.op = "i64.store" THEN 8 ELSE 4
        m1 == [m EXCEPT !.stores =
                   Append(@, [by |-> "store", offset |-> addr, size |-> len,
                              sp |-> m.sp, call |-> Len(m.calls),
                              for |-> for])]
    IN IF ~ InMemory(addr, len) THEN Trapped(m, "out of bounds memory access")
       ELSE IF i.op = "i64.store"
       THEN Drop1([m1 EXCEPT !.mem = StoreI64(@, addr, Top(m.stack, 0).v)], 2)
       ELSE Drop1([m1 EXCEPT !.mem = StoreI32(@, addr, Top(m.stack, 0).v)], 2)

\* ---- structured instructions ----
\* block, loop and if enter their sequence; br_if starts the loop's body
\* again when the condition is not 0
ExecBlockOf(m, i) ==
    CASE i.op = "block" -> Enter(m, Control("block", "", i.seq, <<>>))
      [] i.op = "loop" -> Enter(m, Control("loop", "", i.seq, i.seq))
      [] i.op = "if" ->
            Enter(Drop1(m, 1),
                  Control("block", "",
                          IF Top(m.stack, 0).v # 0 THEN i.consequent
                          ELSE i.alternative, <<>>))

ExecBrIfOf(m, i) ==
    IF Top(m.stack, 0).v # 0
    THEN [Drop1(m, 1) EXCEPT !.ctl[Len(m.ctl)].code = Inner(m).saved]
    ELSE Drop1(m, 1)

\* the end of a sequence: the control is left; at the end of a function the
\* caller's locals are back; at the end of .top-level the call returns
ExecEndOf(m) ==
    LET c == Inner(m)
        m1 == [m EXCEPT !.ctl = SubSeq(@, 1, Len(@) - 1)]
        m2 == IF c.kind = "func" THEN [m1 EXCEPT !.locals = c.saved] ELSE m1
    IN IF Len(m.ctl) = 1 THEN [m2 EXCEPT !.status = "done"] ELSE m2

\* ---- calls ----
\* the call of a function of the contract: the arguments are the callee's
\* first locals, the results stay on the stack
ExecCallOf(m, i) ==
    LET f == ModuleFunc(i.f)
        n == Len(f.params)
        args == SubSeq(m.stack, Len(m.stack) - n + 1, Len(m.stack))
    IN [Drop1(m, n) EXCEPT
          !.ctl = Append(@, Control("func", i.f, f.code, m.locals)),
          !.locals = [id \in {f.first_param + k : k \in 0..(n - 1)} |->
                         args[id - f.first_param + 1]],
          !.calls = Append(@, [f |-> i.f, args |-> args])]

\* ---- the host interface ----
\* the i32 arguments of a host call, the first one first
HostArgs(m, n) == [k \in 1..n |-> Top(m.stack, n - k).v]

LittleEndian32(n) == <<n % 256, (n \div 256) % 256, 0, 0>>

\* a region of memory the host reads or fills, noted like a store
HostUse(m, by, offset, size) ==
    [m EXCEPT !.stores = Append(@, [by |-> by, offset |-> offset,
                                    size |-> size, sp |-> m.sp,
                                    call |-> Len(m.calls), for |-> <<>>])]

\* map_insert(name, key, value): the entry is added and 1 is the result if
\* the map has no entry for the key; else the map is left as it is and 0 is
\* the result
host_map_insert(m) ==
    LET a == HostArgs(m, 6)
        name == Bytes(m.mem, a[1], a[2])
        key == Bytes(m.mem, a[3], a[4])
        value == Bytes(m.mem, a[5], a[6])
        m1 == HostUse(HostUse(Drop1(m, 6), "host-read", a[3], a[4]),
                      "host-read", a[5], a[6])
    IN IF name \notin DOMAIN m.maps THEN Trapped(m, "no such map")
       ELSE IF key \in DOMAIN m.maps[name] THEN Push(m1, <<I32(0)>>)
       ELSE Push([m1 EXCEPT !.maps[name] = (key :> value) @@ @], <<I32(1)>>)

\* map_get(name, key, result): the space for the result is filled with
\* (some value) if the map has an entry for the key, with none if not
host_map_get(m) ==
    LET a == HostArgs(m, 6)
        name == Bytes(m.mem, a[1], a[2])
        key == Bytes(m.mem, a[3], a[4])
        found == IF key \in DOMAIN m.maps[name]
                 THEN LittleEndian32(1) \o m.maps[name][key]
                 ELSE LittleEndian32(0)
        m1 == HostUse(HostUse(Drop1(m, 6), "host-read", a[3], a[4]),
                      "host-write", a[5], a[6])
    IN IF name \notin DOMAIN m.maps THEN Trapped(m, "no such map")
       ELSE IF Len(found) > a[6] \/ ~ InMemory(a[5], a[6])
       THEN Trapped(m, "out of bounds memory access")
       ELSE [m1 EXCEPT !.mem = WriteBytes(@, a[5], found)]

\* static_contract_call(contract, function, arguments, result): the
\* function called here answers (ok x) for its argument x
host_static_contract_call(m) ==
    LET a == HostArgs(m, 8)
        answer == LittleEndian32(1) \o Bytes(m.mem, a[5], a[6])
        m1 == HostUse(HostUse(Drop1(m, 8), "host-read", a[5], a[6]),
                      "host-write", a[7], a[8])
    IN IF Len(answer) > a[8] \/ ~ InMemory(a[7], a[8])
       THEN Trapped(m, "out of bounds memory access")
       ELSE [m1 EXCEPT !.mem = WriteBytes(@, a[7], answer)]

\* the call of a function of the host interface
ExecHostOf(m, i) ==
    LET m1 == [m EXCEPT !.calls = Append(@, [f |-> i.f, args |-> <<>>])]
    IN CASE i.f = "runtime-error" -> Trapped(Drop1(m1, 1), Top(m.stack, 0).trap)
         [] i.f = "define_function" -> Drop1(m1, 3)
         [] i.f = "stdlib.define_trait" -> Drop1(m1, 2)
         [] i.f = "define_map" ->
               Drop1([m1 EXCEPT !.maps =
                         (Bytes(m.mem, Top(m.stack, 1).v, Top(m.stack, 0).v)
                             :> <<>>) @@ @], 2)
         [] i.f = "enter_as_contract" -> [m1 EXCEPT !.ctx = Append(@, "contract")]
         [] i.f = "exit_as_contract" -> [m1 EXCEPT !.ctx = Pop(@, 1)]
         [] i.f = "chain_id" -> Push(m1, <<I64(<<1>> \o Zeros(7)), I64(Zeros(8))>>)
         [] i.f = "map_insert" -> host_map_insert(m1)
         [] i.f = "map_get" -> host_map_get(m1)
         [] i.f = "static_contract_call" -> host_static_contract_call(m1)

\* ---- validation ----
\* the sequences of every if and loop take and leave nothing
RECURSIVE Balanced(_)
Balanced(instrs) ==
    \A n \in 1..Len(instrs) :
        LET i == Ins(instrs[n])
        IN CASE i.op = "if" -> /\ Shape(i.consequent, <<>>) = <<>>
                               /\ Shape(i.alternative, <<>>) = <<>>
             [] i.op = "loop" -> Shape(i.seq, <<>>) = <<>>
             [] i.op = "block" -> Balanced(i.seq)
             [] OTHER -> TRUE

\* the engine accepts a module only if every function leaves exactly its
\* results on the operand stack
Validates(module) ==
    \A k \in 1..Len(module.funcs) :
        /\ Shape(module.funcs[k].code, <<>>) = module.funcs[k].results
        /\ Balanced(module.funcs[k].code)

\* ---- the contracts run ----
True == Atom("true", BoolType)
None == Atom("none", OptionalType(NoType))
OptInt == OptionalType(IntType)
ListOf(n) == ListType(n, IntType)
Some1 == List("some", <<Lit(One, IntType)>>, OptInt)
Ok1 == List("ok", <<Lit(One, IntType)>>, RespIntInt)
Err1 == List("err", <<Lit(One, IntType)>>, RespIntInt)
OkTrue == List("ok", <<True>>, RespBoolInt)
ErrTrue == List("err", <<True>>, RespIntBool)

UnwrapPanic(input, ty) == List("unwrap-panic", <<input>>, ty)
Begin(statements, ty) == List("begin", statements, ty)
If1Else2 == List("if", <<True, Lit(One, IntType), Lit(Two, IntType)>>, IntType)

\* (define-private (f (x int) (y int)) x)
DefineFirst ==
    List("define-private",
         <<Signature("f", <<Param("x", IntType), Param("y", IntType)>>, IntType, TRUE),
           Atom("x", IntType)>>, Untyped)

\* (list 1 2), (list 1), (list)
List12 == List("list", <<Lit(One, IntType), Lit(Two, IntType)>>, ListOf(2))
List1 == List("list", <<Lit(One, IntType)>>, ListOf(1))
List0 == List("list", <<>>, ListType(0, NoType))

\* (fold f sequence 0)
Zero == IntValue(Zeros(16))
Fold(sequence) ==
    List("fold", <<Atom("f", Untyped), sequence, Lit(Zero, IntType)>>, IntType)

\* (define-private (g (k (list 2 int))) (fold f k 0))
DefineFoldParam ==
    List("define-private",
         <<Signature("g", <<Param("k", ListOf(2))>>, IntType, TRUE),
           Fold(Atom("k", ListOf(2)))>>, Untyped)

\* (define-map m int int), (map-insert m key value), (map-get? m key)
DefineMap ==
    List("define-map", <<Atom("m", Untyped), Atom("int", Untyped),
                         Atom("int", Untyped)>>, Untyped)
MapInsert12(key, value) ==
    List("map-insert", <<Atom("m", Untyped), Lit(key, IntType),
                         Lit(value, IntType)>>, BoolType)
MapGet(key) ==
    List("map-get?", <<Atom("m", Untyped), Lit(key, IntType)>>, OptInt)

\* (contract-call? .c f argument)
ContractC == [k |-> "contract", version |-> 22, hash |-> Zeros(20), name |-> <<99>>]
ContractCall(argument) ==
    List("contract-call?", <<Lit(ContractC, PrincipalType), Atom("f", Untyped),
                             argument>>, RespIntInt)

AsContract(inner, ty) == List("as-contract", <<inner>>, ty)

\* (define-trait name ((func (int) (response int int))))
DefineTrait(name) ==
    List("define-trait", <<Atom(name, Untyped), Atom("functions", Untyped)>>, Untyped)
\* (let ((name 1)) 2)
LetName(name) ==
    List("let", <<Bindings(<<Pair(name, Lit(One, IntType))>>), Lit(Two, IntType)>>,
         IntType)

ExecPrograms ==
    { \* unwrap-panic and unwrap-err-panic
      << UnwrapPanic(Some1, IntType) >>,
      << UnwrapPanic(Ok1, IntType) >>,
      << UnwrapPanic(OkTrue, BoolType) >>,
      << UnwrapPanic(List("ok", <<Ok1>>, ResponseType(RespIntInt, BoolType)),
                     RespIntInt) >>,
      << UnwrapPanic(Err1, IntType) >>,
      << UnwrapPanic(ErrTrue, IntType) >>,
      << UnwrapPanic(None, NoType) >>,
      << UnwrapPanic(Atom("none", OptInt), IntType) >>,
      << List("unwrap-err-panic", <<Err1>>, IntType) >>,
      << List("unwrap-err-panic", <<Ok1>>, IntType) >>,
      << List("unwrap-err!", <<Err1, Lit(Two, IntType)>>, IntType) >>,
      << List("unwrap!", <<Some1, Lit(Two, IntType)>>, IntType) >>,
      \* statement lists
      << Lit(One, IntType), Lit(Two, IntType) >>,
      << True, Ok1, Lit(Two, IntType) >>,
      << Begin(<<Lit(One, IntType), True, Lit(Two, IntType)>>, IntType) >>,
      << Begin(<<Some1, True>>, BoolType), Lit(One, IntType) >>,
      << List("let", <<Bindings(<<Pair("x", Lit(One, IntType))>>),
                       Atom("x", IntType), True, Lit(Two, IntType)>>, IntType) >>,
      << Begin(<<If1Else2, Lit(Two, IntType)>>, IntType) >>,
      << If1Else2 >>,
      \* fold
      << DefineFirst, Fold(List12) >>,
      << DefineFirst, Fold(List1) >>,
      << DefineFirst, Fold(List0) >>,
      << DefineFirst, DefineFoldParam, List("g", <<List12>>, IntType) >>,
      << DefineFirst, DefineFoldParam, List("g", <<List1>>, IntType) >>,
      \* maps
      << DefineMap, MapInsert12(One, One) >>,
      << DefineMap, MapInsert12(One, One), MapInsert12(One, Two) >>,
      << DefineMap, MapInsert12(One, One), MapInsert12(Two, Two) >>,
      << DefineMap, MapInsert12(One, One), MapInsert12(One, Two), MapGet(One) >>,
      << DefineMap, MapInsert12(One, One), MapGet(Two) >>,
      << DefineMap, List("map-insert", <<Atom("m", Untyped), True,
                                         Lit(One, IntType)>>, BoolType) >>,
      \* contract calls
      << ContractCall(Lit(One, IntType)) >>,
      << ContractCall(List1) >>,
      \* as-contract
      << AsContract(Lit(One, IntType), IntType) >>,
      << AsContract(AsContract(Lit(One, IntType), IntType), IntType), True >>,
      << AsContract(UnwrapPanic(Ok1, IntType), IntType) >>,
      << AsContract(UnwrapPanic(Err1, IntType), IntType) >>,
      << Atom("chain-id", IntType) >>,
      \* names of let bindings and traits
      << DefineTrait("a") >>,
      << DefineTrait("a"), LetName("x") >>,
      << DefineTrait("if") >>,
      << DefineTrait("a"), DefineTrait("a") >>,
      << DefineFirst, DefineTrait("f") >>,
      << LetName("if") >>,
      << LetName("true") >>,
      << DefineFirst, LetName("f") >>,
      << DefineTrait("a"), LetName("a") >>,
      << List("define-trait", <<Atom("a", Untyped)>>, Untyped) >> }

InitExec ==
    /\ CodecIdle /\ GenInit /\ RunIdle /\ SerializeIdle
    /\ program \in ExecPrograms
    /\ gen = NewGenerator
    /\ result = [kind |-> "none"]
    /\ first = [kind |-> "none"]
    /\ machine = [status |-> "idle"]

\* ---- the steps of the engine ----
Unchanged == UNCHANGED <<cvars, gvars, rvars, svars, program, gen, result, first>>

\* the module is validated and instantiated, and .top-level is called
Start ==
    /\ result.kind = "module"
    /\ machine.status = "idle"
    /\ Validates(result)
    /\ machine' = Instantiate(result)
    /\ Unchanged

\* the module does not validate: nothing of it is run
Reject ==
    /\ result.kind = "module"
    /\ machine.status = "idle"
    /\ ~ Validates(result)
    /\ machine' = [status |-> "invalid"]
    /\ Unchanged

Running(ops) ==
    /\ machine.status = "run"
    /\ ~ AtEnd(machine)
    /\ Fetch(machine).op \in ops

ExecConst ==
    /\ Running({"i32.const", "i64.const"})
    /\ machine' = ExecConstOf(Advance(machine), Fetch(machine))
    /\ Unchanged

ExecLocal ==
    /\ Running({"local.get", "local.set", "local.tee"})
    /\ machine' = ExecLocalOf(Advance(machine), Fetch(machine))
    /\ Unchanged

ExecGlobal ==
    /\ Running({"global.get", "global.set"})
    /\ machine' = ExecGlobalOf(Advance(machine), Fetch(machine), Emitter(machine))
    /\ Unchanged

ExecNumeric ==
    /\ Running({"drop", "i32.eqz", "i32.add", "i32.lt_u"})
    /\ machine' = ExecNumericOf(Advance(machine), Fetch(machine))
    /\ Unchanged

ExecLoad ==
    /\ Running({"i64.load", "i32.load"})
    /\ machine' = ExecLoadOf(Advance(machine), Fetch(machine))
    /\ Unchanged

ExecStore ==
    /\ Running({"i64.store", "i32.store"})
    /\ machine' = ExecStoreOf(Advance(machine), Fetch(machine), Emitter(machine))
    /\ Unchanged

ExecBlock ==
    /\ Running({"block", "loop", "if"})
    /\ machine' = ExecBlockOf(Advance(machine), Fetch(machine))
    /\ Unchanged

ExecBrIf ==
    /\ Running({"br_if"})
    /\ machine' = ExecBrIfOf(Advance(machine), Fetch(machine))
    /\ Unchanged

ExecCall ==
    /\ Running({"call"})
    /\ Fetch(machine).f \notin HostFunctions
    /\ machine' = ExecCallOf(Advance(machine), Fetch(machine))
    /\ Unchanged

ExecHost ==
    /\ Running({"call"})
    /\ Fetch(machine).f \in HostFunctions
    /\ machine' = ExecHostOf(Advance(machine), Fetch(machine))
    /\ Unchanged

ExecEnd ==
    /\ machine.status = "run"
    /\ AtEnd(machine)
    /\ machine' = ExecEndOf(machine)
    /\ Unchanged

NextExec ==
    \/ TraverseTopLevel
    \/ GenerateOk
    \/ GenerateErr
    \/ GeneratePanic
    \/ Start
    \/ Reject
    \/ ExecConst
    \/ ExecLocal
    \/ ExecGlobal
    \/ ExecNumeric
    \/ ExecLoad
    \/ ExecStore
    \/ ExecBlock
    \/ ExecBrIf
    \/ ExecCall
    \/ ExecHost
    \/ ExecEnd

SpecExec == InitExec /\ [][NextExec]_vars

\* ---- what is observed of a run ----
\* the run of .top-level is over and has left the stack
Done == machine.status = "done"
TrappedRun == machine.status = "trapped"

\* the slots of an Int, a Bool
IntSlots(v) == << I64(LowHalf(v.i)), I64(HighHalf(v.i)) >>
-----------------------------------------------------------------------------
(* The default walk of ASTVisitor (SpecVisitor): traverse_* visits the      *)
(* sub-expressions and then calls visit_* for the expression.  The bindings *)
(* of a let and the fields of a tuple are handed over as a HashMap and are  *)
(* visited in the order HashMap::values() yields them, which is not the     *)
(* order of the source and is not fixed from one map to the next.  The     *)
(* contract is walked, and then walked a second time.                      *)

\* the names HashMap keys are taken from
HashNames == {"x", "y"}

\* the orders in which a HashMap may yield its keys
HashOrders == { h \in [HashNames -> 1..Cardinality(HashNames)] :
                  \A a, b \in HashNames : h[a] = h[b] => a = b }

\* match_pairs / match_tuple then HashMap::values(): one value per name (the
\* last inserted), in the order h of the names
RECURSIVE ValuesInOrder(_, _, _)
ValuesInOrder(pairs, h, r) ==
    IF r > Cardinality(HashNames) THEN <<>>
    ELSE LET with == { n \in 1..Len(pairs) : h[pairs[n].name] = r }
         IN (IF with = {} THEN <<>>
             ELSE <<pairs[CHOOSE n \in with : \A m \in with : m <= n].value>>)
            \o ValuesInOrder(pairs, h, r + 1)

NewVisitor == [status |-> "ok", traversed |-> 0, visited |-> <<>>]

\* what an implementation's visit_* method is called with
Visit(v, what) == [v EXCEPT !.visited = Append(@, what)]

RECURSIVE visitor_traverse_expr(_, _, _)
RECURSIVE visitor_traverse_all(_, _, _)

\* the expressions of a sequence, in order
visitor_traverse_all(v, exprs, h) ==
    IF exprs = <<>> THEN v
    ELSE visitor_traverse_all(visitor_traverse_expr(v, Head(exprs), h),
                              Tail(exprs), h)

\* ASTVisitor::traverse_let: bindings.values(), then the body, then visit_let
visitor_traverse_let(v, expr, h) ==
    Visit(visitor_traverse_all(
              visitor_traverse_all(v, ValuesInOrder(expr.args[1].pairs, h, 1), h),
              SubSeq(expr.args, 2, Len(expr.args)), h),
          [visit |-> "let"])

\* ASTVisitor::traverse_tuple: values.values(), then visit_tuple
visitor_traverse_tuple(v, expr, h) ==
    Visit(visitor_traverse_all(v, ValuesInOrder(expr.args[1].pairs, h, 1), h),
          [visit |-> "tuple"])

\* ASTVisitor::traverse_call_user_defined: the arguments, then the visit
visitor_traverse_call_user_defined(v, expr, h) ==
    Visit(visitor_traverse_all(v, expr.args, h), [visit |-> "call", f |-> expr.f])

\* ASTVisitor::traverse_expr / traverse_list
visitor_traverse_expr(v, expr, h) ==
    CASE expr.e = "literal" -> Visit(v, [visit |-> "literal", value |-> expr.value])
      [] expr.e = "atom" -> Visit(v, [visit |-> "atom", name |-> expr.name])
      [] expr.e = "list" /\ expr.f = "let" -> visitor_traverse_let(v, expr, h)
      [] expr.e = "list" /\ expr.f = "tuple" -> visitor_traverse_tuple(v, expr, h)
      [] OTHER -> visitor_traverse_call_user_defined(v, expr, h)

\* (let ((x 1) (y 2)) y)
LetXY ==
    List("let", <<Bindings(<<Pair("x", Lit(One, IntType)),
                             Pair("y", Lit(Two, IntType))>>),
                  Atom("y", IntType)>>, IntType)

\* the expressions walked
VisitorStatements ==
    { Lit(One, IntType),
      Atom("x", IntType),
      LetXY,
      List("let", <<Bindings(<<Pair("x", Lit(One, IntType))>>),
                    Atom("x", IntType)>>, IntType),
      List("let", <<Bindings(<<Pair("x", Lit(One, IntType)),
                               Pair("y", Lit(One, IntType))>>),
                    Atom("x", IntType)>>, IntType),
      List("tuple", <<Bindings(<<Pair("x", Lit(One, IntType)),
                                 Pair("y", Atom("true", BoolType))>>)>>,
           TupleType({[key |-> <<120>>, ty |-> IntType],
                      [key |-> <<121>>, ty |-> BoolType]})),
      List("f", <<Lit(One, IntType), LetXY>>, IntType) }

InitVisitor ==
    /\ CodecIdle /\ GenInit /\ RunIdle /\ SerializeIdle
    /\ program \in UNION { [1..n -> VisitorStatements] : n \in 1..MaxStatements }
    /\ gen = NewVisitor
    /\ result = [kind |-> "none"]
    /\ first = [kind |-> "none"]
    /\ machine = [status |-> "idle"]

\* the next top-level expression is walked; the HashMaps built on the way
\* yield their values in some order
VisitTopLevel ==
    /\ result.kind = "none"
    /\ gen.traversed < Len(program)
    /\ \E h \in HashOrders :
          gen' = [visitor_traverse_expr(gen, program[gen.traversed + 1], h)
                    EXCEPT !.traversed = @ + 1]
    /\ UNCHANGED <<cvars, gvars, rvars, svars, program, result, first, machine>>

\* the walk is over: its outcome is the sequence of visits made
VisitorReturn ==
    /\ result.kind = "none"
    /\ gen.traversed = Len(program)
    /\ result' = [kind |-> "walk", visited |-> gen.visited]
    /\ UNCHANGED <<cvars, gvars, rvars, svars, program, gen, first, machine>>

\* the same contract is compiled a second time, by a new visitor
WalkAgain ==
    /\ result.kind # "none"
    /\ first.kind = "none"
    /\ first' = result
    /\ result' = [kind |-> "none"]
    /\ gen' = NewVisitor
    /\ UNCHANGED <<cvars, gvars, rvars, svars, program, machine>>

NextVisitor ==
    \/ VisitTopLevel
    \/ VisitorReturn
    \/ WalkAgain

SpecVisitor == InitVisitor /\ [][NextVisitor]_vars

-----------------------------------------------------------------------------
(* The consensus serialization (SpecSerialize): a value is built, from a    *)
(* base value and up to MaxNesting constructors around it, and serialized   *)
(* to its tagged wire encoding.                                            *)

MaxNesting == 2

\* ---- values ----
BoolValue(b) == [k |-> "bool", b |-> b]
ASCIIValue(bytes) == [k |-> "string-ascii", bytes |-> bytes]
ContractPrincipal(version, hash, name) ==
    [k |-> "contract", version |-> version, hash |-> hash, name |-> name]
NoneValue == [k |-> "optional", some |-> FALSE]
SomeValue(v) == [k |-> "optional", some |-> TRUE, v |-> v]
\* a response holds the value of the branch taken; in memory the other
\* branch is present as a placeholder
OkValue(v, untaken) == [k |-> "response", ok |-> TRUE, v |-> v, untaken |-> untaken]
ErrValue(v, untaken) == [k |-> "response", ok |-> FALSE, v |-> v, untaken |-> untaken]
ListValue(items) == [k |-> "list", items |-> items]
TupleValue(fields) == [k |-> "tuple", fields |-> fields]
Field(key, v) == [key |-> key, v |-> v]

\* ---- the wire format ----
\* the tag of a value's runtime shape
TagOf(v) ==
    CASE v.k = "int" -> 0
      [] v.k = "uint" -> 1
      [] v.k = "buffer" -> 2
      [] v.k = "bool" -> IF v.b THEN 3 ELSE 4
      [] v.k = "principal" -> 5
      [] v.k = "contract" -> 6
      [] v.k = "response" -> IF v.ok THEN 7 ELSE 8
      [] v.k = "optional" -> IF v.some THEN 10 ELSE 9
      [] v.k = "list" -> 11
      [] v.k = "tuple" -> 12
      [] v.k = "string-ascii" -> 13

\* a count or length as four bytes, most significant first
BigEndian32(n) ==
    << (n \div 16777216) % 256, (n \div 65536) % 256, (n \div 256) % 256, n % 256 >>

\* the sixteen bytes of an integer, most significant first
BigEndian128(i) == [n \in 1..16 |-> i[17 - n]]

\* the bytes a response contributes after its tag, given the serialization of
\* the branch taken and of the other: both branches
ResponseBothBranches(taken, untaken) == taken \o untaken

\* the bytes a response contributes after its tag, given the serialization of
\* the branch taken and of the other: the chosen branch only
ResponseBranch(taken, untaken) == taken

RECURSIVE serialize(_)
RECURSIVE SerializeAll(_)
RECURSIVE SerializeFields(_)

\* the serializations of the elements of a list, concatenated
SerializeAll(items) ==
    IF items = <<>> THEN <<>>
    ELSE serialize(Head(items)) \o SerializeAll(Tail(items))

\* for each field: the length of the key in one byte, the key, the value
SerializeFields(fields) ==
    IF fields = <<>> THEN <<>>
    ELSE <<Len(Head(fields).key)>> \o Head(fields).key
         \o serialize(Head(fields).v) \o SerializeFields(Tail(fields))

\* serialize: the tag, then the payload of the type
serialize(v) ==
    <<TagOf(v)>> \o
    CASE v.k \in {"int", "uint"} -> BigEndian128(v.i)
      [] v.k = "bool" -> <<>>
      [] v.k \in {"buffer", "string-ascii"} -> BigEndian32(Len(v.bytes)) \o v.bytes
      [] v.k = "principal" -> <<v.version>> \o v.hash
      [] v.k = "contract" ->
            <<v.version>> \o v.hash \o <<Len(v.name)>> \o v.name
      [] v.k = "optional" -> IF v.some THEN serialize(v.v) ELSE <<>>
      [] v.k = "response" -> ResponseBranch(serialize(v.v), serialize(v.untaken))
      [] v.k = "list" -> BigEndian32(Len(v.items)) \o SerializeAll(v.items)
      [] v.k = "tuple" -> BigEndian32(Len(v.fields)) \o SerializeFields(v.fields)

\* ---- the values serialized ----
Hash160 == [n \in 1..20 |-> n]

BaseValues ==
    { IntValue(i) : i \in Int128Values } \cup { UIntValue(i) : i \in Int128Values }
    \cup { BoolValue(TRUE), BoolValue(FALSE), NoneValue,
           BufferValue(<<>>), BufferValue(<<7>>), BufferValue(<<7, 8, 9>>),
           ASCIIValue(<<>>), ASCIIValue(<<104, 105>>),
           StandardPrincipal(22, Hash160), StandardPrincipal(26, Hash160),
           ContractPrincipal(22, Hash160, <<99>>),
           ContractPrincipal(26, Hash160, <<102, 111, 111>>),
           ListValue(<<>>) }

\* the number of constructors around the innermost value
RECURSIVE Nesting(_)
Nesting(v) ==
    CASE v.k = "optional" /\ v.some -> 1 + Nesting(v.v)
      [] v.k = "response" -> 1 + Nesting(v.v)
      [] v.k = "list" /\ v.items # <<>> -> 1 + Nesting(v.items[1])
      [] v.k = "tuple" -> 1 + Nesting(v.fields[1].v)
      [] OTHER -> 0

InitSerialize ==
    /\ CodecIdle /\ GenInit /\ RunIdle /\ TraverseIdle
    /\ svalue \in BaseValues
    /\ sbytes = <<>>
    /\ spc = "value"

\* (some v)
WrapSome ==
    /\ spc = "value" /\ Nesting(svalue) < MaxNesting
    /\ svalue' = SomeValue(svalue)
    /\ UNCHANGED <<cvars, gvars, rvars, tvars, sbytes, spc>>

\* (ok v) or (err v); the other branch is a placeholder of some type
WrapResponse ==
    /\ spc = "value" /\ Nesting(svalue) < MaxNesting
    /\ \E ok \in BOOLEAN :
       \E untaken \in {IntValue(Zeros(16)), BoolValue(FALSE), BufferValue(<<>>)} :
          svalue' = IF ok THEN OkValue(svalue, untaken) ELSE ErrValue(svalue, untaken)
    /\ UNCHANGED <<cvars, gvars, rvars, tvars, sbytes, spc>>

\* (list v) or (list v v)
WrapList ==
    /\ spc = "value" /\ Nesting(svalue) < MaxNesting
    /\ \E n \in 1..2 : svalue' = ListValue([m \in 1..n |-> svalue])
    /\ UNCHANGED <<cvars, gvars, rvars, tvars, sbytes, spc>>

\* { a: v } or { a: v, bb: true }
WrapTuple ==
    /\ spc = "value" /\ Nesting(svalue) < MaxNesting
    /\ \E fields \in { <<Field(<<97>>, svalue)>>,
                       <<Field(<<97>>, svalue), Field(<<98, 98>>, BoolValue(TRUE))>> } :
          svalue' = TupleValue(fields)
    /\ UNCHANGED <<cvars, gvars, rvars, tvars, sbytes, spc>>

\* the value is serialized
Serialize ==
    /\ spc = "value"
    /\ sbytes' = serialize(svalue)
    /\ spc' = "serialized"
    /\ UNCHANGED <<cvars, gvars, rvars, tvars, svalue>>

NextSerialize ==
    \/ WrapSome
    \/ WrapResponse
    \/ WrapList
    \/ WrapTuple
    \/ Serialize

SpecSerialize == InitSerialize /\ [][NextSerialize]_vars

-----------------------------------------------------------------------------
(* Properties of the execution (SpecRun) *)

\* C1: the stack pointer at a function's exit equals its value at the
\* function's entry, whatever call-stack allocations the body (and the
\* functions it called) performed.
C1_StackPointerRestored ==
    last.kind # "none" => /\ last.exit_sp = last.entry_sp
                          /\ sp = last.entry_sp

\* a function that allocated on the call stack has returned to its caller
C1_Witness ==
    /\ last.kind # "none"
    /\ last.nlocals > 0
    /\ last.nested

\* C2: what a public function stored persists if and only if it returns ok:
\* after a call that returned err the data variable holds its pre-call value.
C2_PublicErrLeavesStore ==
    (last.kind = "public" /\ ~last.ok) => /\ last.post_store = last.pre_store
                                          /\ store = last.pre_store

\* C3: a read-only function is always rolled back: after it returns the
\* data variable holds its pre-call value, whatever the body did.
C3_ReadOnlyLeavesStore ==
    last.kind = "read_only" => /\ last.post_store = last.pre_store
                               /\ store = last.pre_store

\* an in-memory value that lies in the call-stack region
InCallStack(ref) == ref # NoRef /\ ref.offset >= literal_memory_end

\* C7: a value a function holds, returned by a callee or built by itself,
\* never refers to call-stack memory above the stack pointer, that is to a
\* reclaimed frame that later allocations overwrite.
C7_NoReclaimedResult ==
    \A i \in 1..Len(frames) :
        InCallStack(frames[i].result) =>
            frames[i].result.offset + frames[i].result.len <= sp

\* C10: the stack pointer starts at the end of the literal memory, so it is
\* never below it, the data segments end at or below it, and every
\* call-stack local lies at or above it.
C10_StackAboveLiterals ==
    /\ sp >= literal_memory_end
    /\ (frames = <<>> /\ phase = "run") => sp = literal_memory_end
    /\ \A i \in 1..Len(data) :
          data[i].offset + Len(data[i].bytes) <= literal_memory_end
    /\ local # NoLocal =>
          /\ local.offset >= literal_memory_end
          /\ \A i \in 1..Len(data) :
                local.offset >= data[i].offset + Len(data[i].bytes)

\* a local was created on the call stack of a nested call, with literal data
\* in the memory
C10_Witness ==
    /\ local # NoLocal
    /\ Len(frames) > 1
    /\ Len(data) > 2

-----------------------------------------------------------------------------
(* Properties of the literal memory (Spec) *)

\* two entries of the log that asked the same function for the same content
SameRequest(i, j) ==
    /\ log[i].fn = log[j].fn
    /\ log[i].arg = log[j].arg

Interning == {"add_string_literal", "add_identifier_string_literal"}

\* C8: interning the same string, or the same identifier, twice returns the
\* same offset both times, whatever was inserted in between.
C8_SameOffset ==
    \A i \in 1..Len(log) : \A j \in 1..Len(log) :
        (i < j /\ log[i].fn \in Interning /\ SameRequest(i, j)) =>
            log[j].offset = log[i].offset

\* the same content interned twice with an insertion that added data between
C8_Witness ==
    \E i \in 1..Len(log) : \E j \in 1..Len(log) :
        /\ i + 1 < j
        /\ log[i].fn \in Interning
        /\ SameRequest(i, j)
        /\ log[i + 1].added > 0
        /\ log[i].offset # log[i + 1].offset

\* C9: a repeated insertion of any literal adds no data and returns the
\* offset of the existing entry.
C9_NeverWrittenTwice ==
    \A i \in 1..Len(log) : \A j \in 1..Len(log) :
        (i < j /\ SameRequest(i, j)) =>
            /\ log[j].added = 0
            /\ log[j].offset = log[i].offset

-----------------------------------------------------------------------------
(* Properties of the MemoryCodec (SpecCodec) *)

\* C4: for every type, writing a value and reading the type back at the
\* same address pushes exactly the slots that were written, in their order.
C4_RoundTripEveryType ==
    /\ cpc # "panic_write"
    /\ cpc = "roundtrip" => cstack = cpushed

C6_ReservedSizeIsWritten ==
    /\ cpc \in {"written", "panic_write", "roundtrip"} => cwritten = csize
    /\ cpc = "roundtrip" => cread = csize

\* C20: a tuple's slots and memory layout follow the key order of its type:
\* the tuple { a: int, b: bool } has the slots of the integer then the slot
\* of the boolean, byte size 20, the integer at bytes [0, 16) and the
\* boolean at bytes [16, 20) of the place it is written to.
C20_TupleLayout ==
    (cty = TupleIntBool /\ cpc \in {"written", "panic_write", "roundtrip"}) =>
        /\ clar2wasm_ty(cty) = <<"i64", "i64", "i32">>
        /\ csize = 20
        /\ cpc # "panic_write"
        /\ cwritten = 20
        /\ LoadI64(cmem, cbase) = cpushed[1].v
        /\ LoadI64(cmem, cbase + 8) = cpushed[2].v
        /\ LoadI32(cmem, cbase + 16) = cpushed[3].v

-----------------------------------------------------------------------------
(* Properties of the traversal (SpecTraverse) *)

\* C11: whatever unsupported construct, broken invariant or type mismatch the
\* traversal meets, generate returns: either the module, or the failure the
\* traversal stopped at and no module; it never ends without a result.
C11_FailureIsReturned ==
    /\ result.kind \in {"none", "module", "err"}
    /\ result.kind = "module" => gen.status = "ok"
    /\ gen.status # "ok" =>
          /\ gen.traversed <= Len(program)
          /\ result.kind \in {"none", "err"}

\* C12: whenever a type the generator needs is missing from the type map,
\* the compilation fails: no step that depends on the type is skipped and no
\* module is built with a result layout chosen in its absence.
C12_MissingTypeIsFatal ==
    /\ Events("untyped") # {} => gen.status # "ok"
    /\ result.kind = "module" =>
          \A i \in 1..Len(program) :
             LeavesValue(program[i]) => get_expr_type(program[i]) # Untyped

\* what an atom stands for when the function names are the last resort
FourTiers(a) ==
    IF a.reserved THEN "reserved"
    ELSE IF a.constant THEN "constant"
    ELSE IF a.local THEN "local"
    ELSE IF a.function THEN "function" ELSE "none"

\* C13 as stated: an atom is resolved as a reserved variable, else as a
\* constant, else as a lexical binding, else as a global function name; only
\* a name in none of the four stops the compilation.
C13_FourTierResolution ==
    \A n \in Events("atom") :
        /\ gen.events[n].resolved = FourTiers(gen.events[n])
        /\ gen.events[n].resolved = "none" => gen.status = "err"

\* what an atom stands for
ThreeTiers(a) ==
    IF a.reserved THEN "reserved"
    ELSE IF a.constant THEN "constant"
    ELSE IF a.local THEN "local" ELSE "none"

\* C13 (amended): an atom is resolved as a reserved variable, else as a
\* constant, else as a lexical binding; the first of the three that has the
\* name decides, and a name in none of them, a function name included, stops
\* the compilation with an error.
C13_ThreeTierResolution ==
    \A n \in Events("atom") :
        /\ gen.events[n].resolved = ThreeTiers(gen.events[n])
        /\ gen.events[n].resolved = "none" =>
              gen.status = "err" /\ gen.error = "InternalError"

\* a name that is a reserved variable, a constant and a parameter at once
\* was resolved, in a contract that compiled
C13_Witness ==
    /\ \E n \in Events("atom") :
          /\ gen.events[n].reserved /\ gen.events[n].constant
          /\ gen.events[n].local
          /\ gen.events[n].resolved = "reserved"
    /\ result.kind = "module"

\* C14: when a function definition or a let has been compiled, the locals
\* map is the map the form was entered with; between two top-level
\* expressions it is the empty map of a new generator.
C14_ScopeRestored ==
    /\ \A n \in Events("scope") : gen.events[n].after = gen.events[n].before
    /\ gen.status = "ok" => gen.locals = NewGenerator.locals

\* a let that rebinds a parameter was compiled inside a function
C14_Witness ==
    /\ \E n \in Events("scope") :
          /\ gen.events[n].form = "let"
          /\ gen.events[n].before # <<>>
    /\ \E n \in Events("scope") : gen.events[n].form = "define"
    /\ result.kind = "module"

\* the instructions of the sub-expressions of every expression come before
\* the instructions of the expression itself
PostOrder(code) ==
    \A i, j \in 1..Len(code) :
        (/\ code[i].by # <<>>
         /\ IsPrefix(code[i].by, code[j].by)
         /\ code[i].by # code[j].by) => j < i

\* the instructions of two sub-expressions of one expression are in the
\* order of the sub-expressions
LeftToRight(code) ==
    \A i, j \in 1..Len(code) :
        (\E k \in 1..Len(code[i].by) :
            /\ k <= Len(code[j].by)
            /\ SubSeq(code[i].by, 1, k - 1) = SubSeq(code[j].by, 1, k - 1)
            /\ code[i].by[k] < code[j].by[k]) => i < j

ResponseForms(code) ==
    { code[i].by : i \in { n \in 1..Len(code) :
                              /\ code[n].by # <<>>
                              /\ NodeAt(code[n].by).e = "list"
                              /\ NodeAt(code[n].by).f \in {"ok", "err"} } }

\* C16: in a compilation that has not failed, the instructions of an ok or
\* err of response type R leave the slots of R: the indicator, the slots of
\* the ok type, the slots of the err type; they are the indicator, then the
\* value in the place of its branch and placeholders in the place of the
\* other.
C16_ResponseShape ==
    gen.status = "ok" =>
    \A code \in Builders : \A p \in ResponseForms(code) :
        LET R == NodeAt(p).ty
            seg == Segment(code, p)
            value == Segment(code, p \o <<1>>)
        IN /\ Shape(seg, <<>>) = <<"i32">> \o clar2wasm_ty(R.a) \o clar2wasm_ty(R.b)
           /\ Len(Shape(seg, <<>>)) =
                 1 + Len(clar2wasm_ty(R.a)) + Len(clar2wasm_ty(R.b))
           /\ IF NodeAt(p).f = "ok"
              THEN /\ Shape(value, <<>>) = clar2wasm_ty(R.a)
                   /\ seg = <<I32Const(1)>> \o value \o PlaceholderCode(R.b)
              ELSE /\ Shape(value, <<>>) = clar2wasm_ty(R.b)
                   /\ seg = <<I32Const(0)>> \o PlaceholderCode(R.a) \o value

\* an ok and an err were built for one response type whose branches have
\* different slots
C16_Witness ==
    /\ gen.status = "ok"
    /\ \E p, q \in ResponseForms(gen.code) :
          /\ NodeAt(p).f = "ok" /\ NodeAt(q).f = "err"
          /\ NodeAt(p).ty = NodeAt(q).ty
          /\ clar2wasm_ty(NodeAt(p).ty.a) # clar2wasm_ty(NodeAt(p).ty.b)
    /\ result.kind = "module"

-----------------------------------------------------------------------------
(* Properties of the default walk (SpecVisitor) *)

-----------------------------------------------------------------------------
(* Properties of the serialization (SpecSerialize) *)

\* the size of what follows the tag in the encoding of a value's shape
RECURSIVE PayloadSize(_)
PayloadSize(v) ==
    CASE v.k \in {"int", "uint"} -> 16
      [] v.k = "bool" -> 0
      [] v.k \in {"buffer", "string-ascii"} -> 4 + Len(v.bytes)
      [] v.k = "principal" -> 21
      [] v.k = "contract" -> 22 + Len(v.name)
      [] v.k = "optional" -> IF v.some THEN 1 + PayloadSize(v.v) ELSE 0
      [] v.k = "response" -> 1 + PayloadSize(v.v)
      [] v.k = "list" ->
            4 + SumAll([n \in 1..Len(v.items) |-> 1 + PayloadSize(v.items[n])])
      [] v.k = "tuple" ->
            4 + SumAll([n \in 1..Len(v.fields) |->
                          1 + Len(v.fields[n].key) + 1 + PayloadSize(v.fields[n].v)])

-----------------------------------------------------------------------------
(* Properties of the emitted module, run (SpecExec) *)

\* the slots of the value an expression of constants stands for: an Int is
\* its low and high halves, a Bool its 0 or 1, (some v), (ok v) and (err v)
\* the indicator and the slots of each branch, zero where it is not taken
ZeroSlots(ty) == [n \in 1..Len(clar2wasm_ty(ty)) |-> ZeroOf(clar2wasm_ty(ty)[n])]

RECURSIVE SlotsOf(_)
SlotsOf(expr) ==
    CASE expr.e = "literal" -> IntSlots(expr.value)
      [] expr.e = "atom" /\ expr.name = "true" -> <<I32(1)>>
      [] expr.e = "atom" /\ expr.name = "false" -> <<I32(0)>>
      [] expr.e = "atom" /\ expr.name = "none" -> ZeroSlots(expr.ty)
      [] expr.e = "list" /\ expr.f = "some" -> <<I32(1)>> \o SlotsOf(expr.args[1])
      [] expr.e = "list" /\ expr.f = "ok" ->
            <<I32(1)>> \o SlotsOf(expr.args[1]) \o ZeroSlots(expr.ty.b)
      [] expr.e = "list" /\ expr.f = "err" ->
            <<I32(0)>> \o ZeroSlots(expr.ty.a) \o SlotsOf(expr.args[1])

\* the contract is one expression (f input ...)
OneCall(f) ==
    /\ Len(program) = 1
    /\ program[1].e = "list"
    /\ program[1].f = f

Input == program[1].args[1]
Holds(input) == input.e = "list" /\ input.f \in {"some", "ok"}

\* the contract was compiled to a module the engine accepts
Compiles ==
    /\ result.kind \in {"none", "module"}
    /\ machine.status # "invalid"

\* C21: (unwrap-panic (some v)) and (unwrap-panic (ok v)) run to the end and
\* leave v; (unwrap-panic none) and (unwrap-panic (err e)) never run to the
\* end: they stop with the runtime error Panic and leave nothing.
C21_UnwrapPanic ==
    OneCall("unwrap-panic") =>
        /\ Compiles
        /\ Holds(Input) =>
              /\ ~ TrappedRun
              /\ Done => machine.stack = SlotsOf(Input.args[1])
        /\ ~ Holds(Input) =>
              /\ ~ Done
              /\ TrappedRun => machine.trap = "Panic" /\ machine.stack = <<>>

\* (unwrap-panic (err 1)) has stopped with the runtime error
C21_Witness ==
    /\ OneCall("unwrap-panic")
    /\ Input.e = "list" /\ Input.f = "err"
    /\ TrappedRun
    /\ machine.calls = <<[f |-> "runtime-error", args |-> <<>>]>>

\* C22: (unwrap-err-panic (err e)) runs to the end and leaves e;
\* (unwrap-err-panic (ok v)) never runs to the end: it stops with the
\* runtime error Panic.
C22_UnwrapErrPanic ==
    OneCall("unwrap-err-panic") =>
        /\ Compiles
        /\ Input.f = "err" =>
              /\ ~ TrappedRun
              /\ Done => machine.stack = SlotsOf(Input.args[1])
        /\ Input.f = "ok" =>
              /\ ~ Done
              /\ TrappedRun => machine.trap = "Panic"

\* the statements of the contract's statement list: the arguments of its
\* one begin, the body of its one let, or its top-level expressions
StatementList ==
    IF OneCall("begin") THEN program[1].args
    ELSE IF OneCall("let") THEN Tail(program[1].args)
    ELSE program

\* the constant a statement of constants has the value of: the last statement
\* of a begin, the branch taken of an if
RECURSIVE ValueOf(_)
ValueOf(expr) ==
    IF expr.e = "list" /\ expr.f = "begin" THEN ValueOf(expr.args[Len(expr.args)])
    ELSE IF expr.e = "list" /\ expr.f = "if"
    THEN IF ValueOf(expr.args[1]).name = "true"
         THEN ValueOf(expr.args[2]) ELSE ValueOf(expr.args[3])
    ELSE expr

RECURSIVE IsConstant(_)
IsConstant(expr) ==
    \/ expr.e = "literal"
    \/ expr.e = "atom" /\ expr.name \in {"true", "false", "none", "x"}
    \/ /\ expr.e = "list"
       /\ expr.f \in {"ok", "err", "some", "begin", "if"}
       /\ \A n \in 1..Len(expr.args) : IsConstant(expr.args[n])

\* the host function a statement that is a map operation calls
HostOf(expr) ==
    CASE expr.f = "define-map" -> "define_map"
      [] expr.f = "map-insert" -> "map_insert"
      [] expr.f = "map-get?" -> "map_get"

IsMapOperation(expr) ==
    /\ expr.e = "list"
    /\ expr.f \in {"define-map", "map-insert", "map-get?"}
    /\ expr.args[2].ty # BoolType

\* C23: a statement list of n >= 1 statements is compiled, runs to the end
\* and leaves the value of its last statement and nothing of the others; its
\* statements are evaluated once each, in order.
C23_LastStatement ==
    /\ (\A n \in 1..Len(StatementList) : IsConstant(StatementList[n])) =>
          /\ Compiles
          /\ ~ TrappedRun
          /\ Done => machine.stack =
                        SlotsOf(ValueOf(StatementList[Len(StatementList)]))
    /\ (\A n \in 1..Len(program) : IsMapOperation(program[n])) =>
          /\ Compiles
          /\ Done => machine.calls # <<>> /\
                     [n \in 1..Len(machine.calls) |-> machine.calls[n].f] =
                        [n \in 1..Len(program) |-> HostOf(program[n])]

\* the contract folds f, which returns its first argument, over a list: at
\* the top level, or in g called with the list
IsFold ==
    /\ Len(program) >= 2
    /\ program[1] = DefineFirst
    /\ program[2] = DefineFoldParam \/ program[2].f = "fold"

\* the list folded over, and the calls of f made
Folded ==
    IF program[2] = DefineFoldParam THEN program[3].args[1] ELSE program[2].args[2]
CallsOf(f) == SelectSeq(machine.calls, LAMBDA c : c.f = f)

\* C24: a fold that has run to the end has called the function once per
\* element of the list, in order, with the element and the previous result
\* (the initial value for the first element), and leaves the last result;
\* over the empty list it has not called the function and leaves the
\* initial value.
C24_FoldOncePerElement ==
    IsFold =>
        /\ Compiles
        /\ ~ TrappedRun
        /\ Done =>
              LET elems == Folded.args
                  calls == CallsOf("f")
                  before(n) == IF n = 1 THEN Zero ELSE elems[n - 1].value
              IN /\ Len(calls) = Len(elems)
                 /\ \A n \in 1..Len(calls) :
                       n <= Len(elems) =>
                          calls[n].args = IntSlots(elems[n].value) \o IntSlots(before(n))
                 /\ machine.stack = IntSlots(before(Len(elems) + 1))

\* the contract defines the map m and inserts into it and reads it
IsMapProgram ==
    /\ Len(program) >= 2
    /\ \A n \in 1..Len(program) : IsMapOperation(program[n])

\* the entries the map has after the first n statements, an insert for a key
\* the map has being without effect
RECURSIVE EntriesAfter(_)
EntriesAfter(n) ==
    IF n <= 1 THEN <<>>
    ELSE LET before == EntriesAfter(n - 1)
             s == program[n]
         IN IF s.f = "map-insert" /\ s.args[2].value \notin DOMAIN before
            THEN (s.args[2].value :> s.args[3].value) @@ before
            ELSE before

\* the value of the n-th statement: true for an insert of a new key, false
\* for an insert of a key the map has, (some v) or none for a map-get?
AnswerOf(n) ==
    LET before == EntriesAfter(n - 1)
        key == program[n].args[2].value
    IN IF program[n].f = "map-insert"
       THEN <<I32(IF key \in DOMAIN before THEN 0 ELSE 1)>>
       ELSE IF key \in DOMAIN before
            THEN <<I32(1)>> \o IntSlots(before[key])
            ELSE <<I32(0)>> \o ZeroSlots(IntType)

\* C25: map-insert stores the value and yields true only for a key the map
\* does not have; for a key it has, it yields false and the map keeps the
\* entry, so a following map-get? of the key yields the value stored first.
C25_MapInsert ==
    IsMapProgram =>
        /\ Compiles
        /\ ~ TrappedRun
        /\ Done =>
              LET entries == EntriesAfter(Len(program))
              IN /\ machine.stack = AnswerOf(Len(program))
                 /\ DOMAIN machine.maps = {NameBytes["m"]}
                 /\ DOMAIN machine.maps[NameBytes["m"]] =
                       {k.i : k \in DOMAIN entries}
                 /\ \A k \in DOMAIN entries :
                       machine.maps[NameBytes["m"]][k.i] = entries[k].i

\* 1 was inserted for the key 1, then 2 for the same key, and the map-get?
\* that followed has yielded (some 1)
C25_Witness ==
    /\ program = <<DefineMap, MapInsert12(One, One), MapInsert12(One, Two), MapGet(One)>>
    /\ Done
    /\ machine.stack = <<I32(1)>> \o IntSlots(One)

\* the name the n-th top-level expression binds or defines, if it is a let
\* of one binding or a define-trait
IsBinder(n) ==
    /\ program[n].e = "list"
    /\ \/ program[n].f = "let"
       \/ program[n].f = "define-trait" /\ Len(program[n].args) = 2
BoundName(n) ==
    IF program[n].f = "let" THEN program[n].args[1].pairs[1].name
    ELSE program[n].args[1].name

\* the names the top-level expressions before the n-th have defined as
\* functions or traits
DefinedBefore(n) ==
    { IF program[k].f = "define-trait" THEN program[k].args[1].name
      ELSE program[k].args[1].name :
        k \in { j \in 1..(n - 1) :
                  /\ program[j].e = "list"
                  /\ program[j].f \in {"define-trait", "define-private",
                                       "define-read-only", "define-public"}
                  /\ Len(program[j].args) = 2 } }

BuiltInNames ==
    NativeVariableNames \cup NativeFunctionNames \cup DefineFunctionNames \cup {"let"}

\* the first let or define-trait of the contract that takes a reserved name
ReservedAt(n) ==
    /\ n \in 1..Len(program)
    /\ IsBinder(n)
    /\ BoundName(n) \in BuiltInNames \cup DefinedBefore(n)
    /\ \A k \in 1..(n - 1) : ~ (IsBinder(k) /\ BoundName(k) \in BuiltInNames \cup DefinedBefore(k))

TypedForms ==
    { p \in { gen.code[n].by : n \in 1..Len(gen.code) } :
        p # <<>> /\ get_expr_type(NodeAt(p)) # Untyped }

\* C27: in a compilation that has not failed, the instructions of every
\* typed expression leave exactly the slots of the expression's type; an if
\* leaves only its result, an unwrap only the unwrapped value.
C27_SlotsOfType ==
    gen.status = "ok" =>
        \A p \in TypedForms :
            Shape(Segment(gen.code, p), <<>>) = clar2wasm_ty(NodeAt(p).ty)

\* regions of memory: one within another, two apart
Within(a, b) == b.offset <= a.offset /\ a.offset + a.size <= b.offset + b.size
Apart(a, b) == a.offset + a.size <= b.offset \/ b.offset + b.size <= a.offset

\* the stores, reservations and host uses noted so far
Noted(kinds) ==
    { n \in 1..Len(machine.stores) : machine.stores[n].by \in kinds }

\* C28: every store of an expression into the call stack goes to a region
\* the expression reserved before by advancing the stack pointer; every
\* region given to the host is a reserved one; the regions given to one
\* host call (the arguments and the result of a static contract call) are
\* apart from each other.
C28_ReservedRegions ==
    machine.status \in {"run", "done", "trapped"} =>
        LET noted == machine.stores
        IN /\ \A n \in Noted({"store"}) :
                 \E k \in Noted({"reserve"}) :
                    /\ k < n
                    /\ noted[k].for = noted[n].for
                    /\ Within(noted[n], noted[k])
           /\ \A n \in Noted({"host-read", "host-write"}) :
                 \E k \in Noted({"reserve"}) : k < n /\ Within(noted[n], noted[k])
           /\ \A j, k \in Noted({"host-read", "host-write"}) :
                 j # k /\ noted[j].call = noted[k].call => Apart(noted[j], noted[k])

-----------------------------------------------------------------------------
(* Properties of the literal pool (Spec), continued *)

\* C29: a string interned again is answered with the offset and the length
\* that were returned when it was interned first, and every length returned
\* for a string is the number of bytes the data segment at the offset holds.
C29_SamePairOnHit ==
    /\ \A i \in 1..Len(log) : \A j \in 1..Len(log) :
          (i < j /\ log[i].fn = "add_string_literal" /\ SameRequest(i, j)) =>
              /\ log[j].offset = log[i].offset
              /\ log[j].len = log[i].len
    /\ \A j \in 1..Len(log) :
          log[j].fn = "add_string_literal" =>
              \E d \in 1..Len(data) :
                  /\ data[d].offset = log[j].offset
                  /\ Len(data[d].bytes) = log[j].len

-----------------------------------------------------------------------------
(* Properties of the emitted module, run (SpecExec), continued *)

\* the calls of enter_as_contract and exit_as_contract among the first n
\* calls made
Entered(n) ==
    Cardinality({ k \in 1..n : machine.calls[k].f = "enter_as_contract" })
Exited(n) ==
    Cardinality({ k \in 1..n : machine.calls[k].f = "exit_as_contract" })

\* C30: every enter_as_contract is followed by exactly one
\* exit_as_contract however the inner expression is left: while the contract
\* runs no exit comes without its enter and the context is switched as deep
\* as enters are not yet matched, and once the run has ended, at the end of
\* the top-level function or by a runtime error, every enter has had its
\* exit and the context is not switched.
C30_EnterThenExit ==
    machine.status \in {"run", "done", "trapped"} =>
        /\ \A n \in 0..Len(machine.calls) : Exited(n) <= Entered(n)
        /\ Len(machine.ctx) = Entered(Len(machine.calls)) - Exited(Len(machine.calls))
        /\ machine.status \in {"done", "trapped"} =>
              /\ Exited(Len(machine.calls)) = Entered(Len(machine.calls))
              /\ machine.ctx = <<>>

=============================================================================
